---- MODULE Spec2Model ----
(***************************************************************************)
(* Model of the ancillary-data I/O subsystem of interprocess' Unix domain  *)
(* socket support: the derived write and read operations of                *)
(* udsocket/ancillary_io.rs, the readiness retry loop and the split /      *)
(* reunite protocol of udsocket/tokio/stream/mod.rs, and the name resolver *)
(* of local_socket/mod.rs.                                                 *)
(*                                                                         *)
(* Each component has its own specification (SpecWrite, SpecSplit, ...)    *)
(* over its own group of variables; the other groups stay at their idle    *)
(* value.                                                                  *)
(***************************************************************************)
EXTENDS Integers, Sequences, FiniteSets, TLC

VARIABLES
    \* ---- write_all_ancillary (ancillary_io.rs:239-273)
    wbuf,       \* the caller's main buffer `buf`
    wabuf,      \* the caller's ancillary payload `abuf` (serialized control messages)
    wrem,       \* write_all's remaining slice of `buf`
    wpart,      \* WriteAncillaryPartAppl.abuf, the payload still to be attached
    wcalls,     \* history: every call made on the underlying stream, in order
    wpc,        \* "call" | "loop" | "done"
    wres,       \* the io::Result<()> returned: "none" | "Ok" | an error kind
    \* ---- split / reunite (tokio/stream/mod.rs:93-114, 232-254)
    streams,    \* the live unsplit UdStream objects
    rhalves,    \* the live OwnedReadHalf objects
    whalves,    \* the live OwnedWriteHalf objects
    sock,       \* per descriptor: is it open, and which directions are not shut down
    nsplits,    \* history: how many into_split calls were made
    splitLog,   \* history: per into_split call, the stream it consumed
    lastReunite, \* history: the reunite call just made, if the last step was one
    \* ---- readiness retry loop (tokio/stream/mod.rs:144-170, 204-230)
    pdir,       \* direction of the operation in flight: "read" | "write"
    ppc,        \* "idle" | "attempt" | "ready" | "pending" | "done" | "dropped"
    pres,       \* what the operation resolved to
    plast,      \* history: outcome of the operation's last recvmsg / sendmsg
    kready,     \* per direction: the raw syscall would not block now
    pevent,     \* per direction: a readiness event the reactor has yet to deliver
    readiness,  \* per direction: the readiness the runtime has cached for the descriptor
    waker,      \* directions in which the task's waker is registered
    woken,      \* the task was woken and will be polled again
    pblocked,   \* history: the last attempt would block and no event was delivered since
    pops,       \* history: operations started
    \* ---- name resolution (local_socket/mod.rs:26-42)
    ntarget,    \* the target_os the crate is built for
    nname,      \* the LocalSocketName passed to name_to_addr
    nres,       \* the io::Result<SocketAddr> returned
    nquery,     \* what name_type_support_query() returns in this build
    npc,        \* "call" | "done"
    \* ---- derived reads (ancillary_io.rs:104-181)
    rop,        \* which derived operation runs
    rstream0,   \* the input: the chunks the peer sent, end-of-stream after them
    rbuf0,      \* the main buffer as passed in (a Vec's contents; empty for read_exact)
    rlen,       \* read_exact_with_ancillary: the length of the slice to fill
    rabuf0,     \* the ancillary buffer as passed in
    rstream,    \* what is left of the input
    rbuf,       \* the main buffer: the Vec's contents, or the filled part of the slice
    rabuf,      \* the ancillary buffer
    rret,       \* ReadAncillaryPartAppl.ret
    rlog,       \* history: every successful call of the underlying read_ancillary, in order
    rerrs,      \* history: how many calls of the underlying read_ancillary failed
    rpc,        \* "call" | "loop" | "done"
    rres,       \* the result: "none" | "Ok" (with rret) | an error kind
    \* ---- default vectored calls and their single-buffer wrappers
    \*      (ancillary_io.rs:46-65, 193-196, 225-231)
    vop,        \* which function is called
    vbufs0,     \* the segments passed in (the one buffer, for a single-buffer wrapper)
    vabuf0,     \* the ancillary buffer (read) or payload (write) passed in
    vstream0,   \* the stream before the call: pending chunks (read), room (write)
    verr,       \* the error the single-buffer primitive fails with, or "none"
    vbufs,      \* the segments after the call
    vabuf,      \* the ancillary buffer after the call
    vstream,    \* the stream after the call
    vcalls,     \* history: the calls of the single-buffer primitive, in order
    vres,       \* the value returned
    vpc,        \* "call" | "done"
    \* ---- a client and a server over one connection (tokio/stream/mod.rs:59-69,
    \*      ancillary_io.rs:116-125, 241-244)
    epayload,   \* the bytes the client writes
    erem,       \* client: write_all's remaining slice
    ecpc,       \* client: "call" | "loop" | "shutdown" | "done"
    echan,      \* the bytes in flight, as the chunks the server's reads will see
    eshut,      \* the client has shut down its write direction
    esbuf0,     \* server: the main buffer (a Vec) as passed in
    esbuf,      \* server: the main buffer
    esabuf,     \* server: the ancillary buffer
    esret,      \* server: ReadAncillaryPartAppl.ret
    espc,       \* server: "call" | "loop" | "done"
    esres,      \* server: the result, "none" | "Ok" (with esret)
    \* ---- a second call of write_all_ancillary with the same arguments, on a
    \*      stream that may behave differently (ancillary_io.rs:239-273)
    trem,       \* write_all's remaining slice of `buf`
    tpart,      \* WriteAncillaryPartAppl.abuf
    tcalls,     \* history: every call made on the underlying stream, in order
    tpc,        \* "call" | "loop" | "done"
    tres,       \* the io::Result<()> returned
    \* ---- a read on the read half and a write on the write half of one split
    \*      connection, each driven by a task of its own (tokio/stream/mod.rs:93-108)
    hpc,        \* per half: "idle" | "attempt" | "ready" | "pending" | "done"
    hres,       \* per half: what its operation resolved to
    hkready,    \* per direction: the raw syscall would not block now
    hevent,     \* per direction: a readiness event the reactor has yet to deliver
    hreadiness, \* per direction: the readiness the runtime has cached
    hwaker,     \* directions in which a waker is registered (that of the half's task)
    hwoken,     \* the halves whose task was woken and will be polled again
    hops,       \* history: operations started
    \* ---- write_fmt_ancillary (ancillary_io.rs:247-250)
    fpieces,    \* the strings the formatted arguments produce, in order
    fabuf,      \* the ancillary payload passed by the caller
    fqueue,     \* the strings not yet handed to write_str
    frem,       \* the slice of the current string write_all still has to write
    fpart,      \* WriteAncillaryPartAppl.abuf: the payload still to be sent
    fcalls,     \* history: the calls made on the underlying stream
    fpc,        \* "call" | "piece" | "loop" | "done"
    fres        \* the io::Result<()> returned

wvars == <<wbuf, wabuf, wrem, wpart, wcalls, wpc, wres>>
svars == <<streams, rhalves, whalves, sock, nsplits, splitLog, lastReunite>>
pvars == <<pdir, ppc, pres, plast, kready, pevent, readiness, waker, woken,
           pblocked, pops>>
nvars == <<ntarget, nname, nres, nquery, npc>>
rvars == <<rop, rstream0, rbuf0, rlen, rabuf0, rstream, rbuf, rabuf, rret, rlog,
           rerrs, rpc, rres>>
vvars == <<vop, vbufs0, vabuf0, vstream0, verr, vbufs, vabuf, vstream, vcalls,
           vres, vpc>>
evars == <<epayload, erem, ecpc, echan, eshut, esbuf0, esbuf, esabuf, esret,
           espc, esres>>
tvars == <<trem, tpart, tcalls, tpc, tres>>
hvars == <<hpc, hres, hkready, hevent, hreadiness, hwaker, hwoken, hops>>
fvars == <<fpieces, fabuf, fqueue, frem, fpart, fcalls, fpc, fres>>

vars == <<wvars, svars, pvars, nvars, rvars, vvars, evars, tvars, hvars, fvars>>

(***************************************************************************)
(* Bounds.                                                                 *)
(***************************************************************************)
MaxBuf == 3      \* longest main buffer handed to write_all_ancillary
MaxAnc == 2      \* longest ancillary payload, in bytes
MaxErrs == 2     \* most failing calls of the underlying stream in one operation
NumConns == 2    \* connections (descriptors) in the split / reunite model
MaxSplits == 3   \* most into_split calls in one behaviour
MaxOps == 2      \* asynchronous operations started in one behaviour
MaxNameLen == 3  \* longest socket name, in bytes
MaxChunks == 2   \* most chunks in an input stream
MaxReq == 2      \* largest buffer read_to_end hands to one read
MaxExact == 3    \* longest slice handed to read_exact_with_ancillary
AbufLimit == 2   \* largest capacity a growable ancillary buffer can reach
MaxReadErrs == 1 \* most failing calls of read_ancillary in one operation
MaxSegs == 3     \* most segments in the list of a vectored call
MaxRoom == 2     \* most bytes the stream accepts in one write
SockBuf == 2     \* most bytes in flight between the two ends of a connection
MaxPieces == 2   \* most strings one write_fmt_ancillary hands to write_str

Bytes == {1, 2}

RECURSIVE SeqsUpTo(_, _)
SeqsUpTo(S, n) ==
    IF n = 0 THEN {<<>>}
    ELSE LET shorter == SeqsUpTo(S, n - 1)
         IN  shorter \cup {Append(s, x) : s \in {t \in shorter : Len(t) = n - 1}, x \in S}

Prefix(s, n) == SubSeq(s, 1, n)
Suffix(s, n) == SubSeq(s, n + 1, Len(s))

RECURSIVE Concat(_)
Concat(ss) == IF ss = <<>> THEN <<>> ELSE Head(ss) \o Concat(Tail(ss))

(***************************************************************************)
(* Idle values of the variable groups.                                     *)
(***************************************************************************)
NoHalf == [tok |-> [fd |-> 0, arc |-> 0, call |-> 0]]
NoStream == [tok |-> [fd |-> 0]]
NoReunite ==
    [called |-> FALSE, ok |-> FALSE, read |-> NoHalf, write |-> NoHalf,
     stream |-> NoStream, errRead |-> NoHalf, errWrite |-> NoHalf,
     sockBefore |-> <<>>]

WriteIdle ==
    /\ wbuf = <<>> /\ wabuf = <<>> /\ wrem = <<>> /\ wpart = <<>>
    /\ wcalls = <<>> /\ wpc = "idle" /\ wres = "none"

SplitIdle ==
    /\ streams = {} /\ rhalves = {} /\ whalves = {}
    /\ sock = <<>> /\ nsplits = 0 /\ splitLog = <<>>
    /\ lastReunite = NoReunite

NoResult == [kind |-> "none", n |-> 0]

PollIdle ==
    /\ pdir = "read" /\ ppc = "idle" /\ pres = NoResult /\ plast = "none"
    /\ kready = <<>> /\ pevent = <<>> /\ readiness = <<>>
    /\ waker = {} /\ woken = FALSE /\ pblocked = FALSE /\ pops = 0

NoAddr == [ok |-> FALSE, kind |-> "none", bytes |-> <<>>, err |-> "none"]

NameIdle ==
    /\ ntarget = "none" /\ nname = [inner |-> <<>>, namespaced |-> FALSE]
    /\ nres = NoAddr /\ nquery = "none" /\ npc = "idle"

NoAbuf == [data |-> <<>>, cap |-> 0, growable |-> FALSE]

ReadIdle ==
    /\ rop = "none" /\ rstream0 = <<>> /\ rbuf0 = <<>> /\ rlen = 0
    /\ rabuf0 = NoAbuf /\ rstream = <<>> /\ rbuf = <<>> /\ rabuf = NoAbuf
    /\ rret = [main |-> 0, ancillary |-> 0] /\ rlog = <<>> /\ rerrs = 0
    /\ rpc = "idle" /\ rres = "none"

VecIdle ==
    /\ vop = "none" /\ vbufs0 = <<>> /\ vabuf0 = NoAbuf /\ vstream0 = <<>>
    /\ verr = "none" /\ vbufs = <<>> /\ vabuf = NoAbuf /\ vstream = <<>>
    /\ vcalls = <<>> /\ vres = "none" /\ vpc = "idle"

EndToEndIdle ==
    /\ epayload = <<>> /\ erem = <<>> /\ ecpc = "idle" /\ echan = <<>>
    /\ eshut = FALSE /\ esbuf0 = <<>> /\ esbuf = <<>> /\ esabuf = NoAbuf
    /\ esret = [main |-> 0, ancillary |-> 0]
    /\ espc = "idle" /\ esres = "none"

TwinIdle ==
    /\ trem = <<>> /\ tpart = <<>> /\ tcalls = <<>> /\ tpc = "idle" /\ tres = "none"

HalvesIdle ==
    /\ hpc = <<>> /\ hres = <<>> /\ hkready = <<>> /\ hevent = <<>>
    /\ hreadiness = <<>> /\ hwaker = {} /\ hwoken = {} /\ hops = 0

FmtIdle ==
    /\ fpieces = <<>> /\ fabuf = <<>> /\ fqueue = <<>> /\ frem = <<>>
    /\ fpart = <<>> /\ fcalls = <<>> /\ fpc = "idle" /\ fres = "none"

(***************************************************************************)
(* The write side.                                                         *)
(***************************************************************************)

\* The io::ErrorKind values the loops distinguish: Interrupted is retried by
\* the standard library's write_all / read_to_end / read_exact, every other
\* kind ends the operation.
ErrKinds == {"Interrupted", "ConnectionReset"}

\* What one call of the underlying primitive (write_ancillary or write) on a
\* buffer of length n can return: Ok(k) with 0 <= k <= n, or Err(kind).
WriteOutcomes(n) ==
    {[ok |-> TRUE, n |-> k, kind |-> "none"] : k \in 0..n}
        \cup {[ok |-> FALSE, n |-> 0, kind |-> e] : e \in ErrKinds}

\* CmsgRef::consume_bytes(amount): drops the first `amount` bytes of the
\* payload the reference denotes.
consume_bytes(abuf, amount) == Suffix(abuf, amount)

\* <WriteAncillaryPartAppl as Write>::write(buf), given the outcome `o` of the
\* one underlying call it makes.  Yields the value returned, the partially
\* applied payload afterwards and the call as the stream saw it.
WriteAncillaryPartAppl_write_resend(buf, abuf, o) ==
    IF abuf # <<>>
    THEN [ret  |-> o,
          abuf |-> abuf,
          call |-> [op |-> "write_ancillary", ok |-> o.ok,
                    bytes |-> Prefix(buf, o.n), anc |-> abuf]]
    ELSE [ret  |-> o,
          abuf |-> abuf,
          call |-> [op |-> "write", ok |-> o.ok,
                    bytes |-> Prefix(buf, o.n), anc |-> <<>>]]

WriteAncillaryPartAppl_write_consume_first(buf, abuf, o) ==
    IF abuf # <<>>
    THEN [ret  |-> o,
          abuf |-> consume_bytes(abuf, Len(abuf)),
          call |-> [op |-> "write_ancillary", ok |-> o.ok,
                    bytes |-> Prefix(buf, o.n), anc |-> abuf]]
    ELSE [ret  |-> o,
          abuf |-> abuf,
          call |-> [op |-> "write", ok |-> o.ok,
                    bytes |-> Prefix(buf, o.n), anc |-> <<>>]]

WriteAncillaryPartAppl_write(buf, abuf, o) ==
    IF abuf # <<>>
    THEN \* let bw = self.slf.write_ancillary(buf, self.abuf)?;
         \* self.abuf.consume_bytes(self.abuf.inner().len());
         [ret  |-> o,
          abuf |-> IF o.ok THEN consume_bytes(abuf, Len(abuf)) ELSE abuf,
          call |-> [op |-> "write_ancillary", ok |-> o.ok,
                    bytes |-> Prefix(buf, o.n), anc |-> abuf]]
    ELSE \* self.slf.write(buf)?
         [ret  |-> o,
          abuf |-> abuf,
          call |-> [op |-> "write", ok |-> o.ok,
                    bytes |-> Prefix(buf, o.n), anc |-> <<>>]]

\* write_all_ancillary(buf, abuf): builds the partial application and enters
\* Write::write_all(buf).
write_all_ancillary ==
    /\ wpc = "call"
    /\ wrem' = wbuf
    /\ wpart' = wabuf
    /\ wpc' = "loop"
    /\ UNCHANGED <<wbuf, wabuf, wcalls, wres>>
    /\ UNCHANGED <<svars, pvars, nvars, rvars, vvars, evars, tvars, hvars, fvars>>

\* How write_all advances on what write() returned: Ok(0) is WriteZero,
\* Ok(n) drops n bytes from the front, Interrupted tries again, any other
\* error is returned.
write_all_advance_skip(rem, r) ==
    IF r.ok
    THEN IF r.n = 0 THEN [rem |-> rem, pc |-> "done", res |-> "WriteZero"]
         ELSE [rem |-> Suffix(rem, IF r.n < Len(rem) THEN r.n + 1 ELSE r.n),
               pc |-> "loop", res |-> "none"]
    ELSE IF r.kind = "Interrupted" THEN [rem |-> rem, pc |-> "loop", res |-> "none"]
         ELSE [rem |-> rem, pc |-> "done", res |-> r.kind]

write_all_advance(rem, r) ==
    IF r.ok
    THEN IF r.n = 0 THEN [rem |-> rem, pc |-> "done", res |-> "WriteZero"]
         ELSE [rem |-> Suffix(rem, r.n), pc |-> "loop", res |-> "none"]
    ELSE IF r.kind = "Interrupted" THEN [rem |-> rem, pc |-> "loop", res |-> "none"]
         ELSE [rem |-> rem, pc |-> "done", res |-> r.kind]

\* One iteration of `while !buf.is_empty() { match self.write(buf) ... }`.
write_all_iter ==
    /\ wpc = "loop"
    /\ wrem # <<>>
    /\ \E o \in WriteOutcomes(Len(wrem)) :
          /\ o.ok \/ Cardinality({i \in DOMAIN wcalls : ~wcalls[i].ok}) < MaxErrs
          /\ LET w == WriteAncillaryPartAppl_write(wrem, wpart, o)
                 a == write_all_advance(wrem, w.ret)
             IN  /\ wcalls' = Append(wcalls, w.call)
                 /\ wpart' = w.abuf
                 /\ wrem' = a.rem
                 /\ wpc' = a.pc
                 /\ wres' = a.res
    /\ UNCHANGED <<wbuf, wabuf>>
    /\ UNCHANGED <<svars, pvars, nvars, rvars, vvars, evars, tvars, hvars, fvars>>

\* The loop condition fails: write_all returns Ok(()).
write_all_return ==
    /\ wpc = "loop"
    /\ wrem = <<>>
    /\ wpc' = "done"
    /\ wres' = "Ok"
    /\ UNCHANGED <<wbuf, wabuf, wrem, wpart, wcalls>>
    /\ UNCHANGED <<svars, pvars, nvars, rvars, vvars, evars, tvars, hvars, fvars>>

InitWrite ==
    /\ FmtIdle
    /\ HalvesIdle
    /\ TwinIdle
    /\ EndToEndIdle
    /\ VecIdle
    /\ SplitIdle
    /\ ReadIdle
    /\ NameIdle
    /\ PollIdle
    /\ wbuf \in SeqsUpTo(Bytes, MaxBuf)
    /\ wabuf \in SeqsUpTo({7}, MaxAnc)
    /\ wrem = <<>>
    /\ wpart = <<>>
    /\ wcalls = <<>>
    /\ wpc = "call"
    /\ wres = "none"

NextWrite ==
    \/ write_all_ancillary
    \/ write_all_iter
    \/ write_all_return

SpecWrite == InitWrite /\ [][NextWrite]_vars

(***************************************************************************)
(* Properties of the write side.                                           *)
(***************************************************************************)

\* The underlying stream returned no error during the operation.
NeverErrored == \A i \in DOMAIN wcalls : wcalls[i].ok

\* The calls that carried a non-empty ancillary payload to the stream.
AncillarySends == {i \in DOMAIN wcalls : wcalls[i].ok /\ wcalls[i].anc # <<>>}

\* The main-band bytes the stream accepted, call after call.
BytesSent == Concat([i \in DOMAIN wcalls |-> wcalls[i].bytes])

\* Every call accepted at least one byte.
NoZeroWrite == \A i \in DOMAIN wcalls : wcalls[i].ok => wcalls[i].bytes # <<>>

\* C1: for any main buffer and a non-empty ancillary payload on a stream that
\* never errors, once write_all_ancillary has returned the payload was handed
\* to the stream exactly once, whole, on the first call.
C1_AncillaryExactlyOnce ==
    (wpc = "done" /\ wabuf # <<>> /\ NeverErrored)
        => /\ AncillarySends = {1}
           /\ wcalls[1].anc = wabuf

\* C2 as stated: on a stream that never returns an error write_all_ancillary
\* returns success and the accepted bytes are exactly buf, in order.
C2_AllBytesSentWheneverNoError ==
    (wpc = "done" /\ NeverErrored)
        => /\ wres = "Ok"
           /\ BytesSent = wbuf

\* C2 amended: on a stream that never returns an error and accepts at least
\* one byte on every call, write_all_ancillary returns success, the byte
\* counts accepted sum to buf.len() and the accepted bytes are the consecutive
\* pieces of buf in order; before it returns, the bytes accepted so far
\* followed by the remaining slice are buf.
C2_AllBytesSentOnce ==
    /\ (wpc = "done" /\ NeverErrored /\ NoZeroWrite)
          => /\ wres = "Ok"
             /\ BytesSent = wbuf
             /\ Len(BytesSent) = Len(wbuf)
    /\ (wpc \in {"loop", "done"} /\ NeverErrored) => BytesSent \o wrem = wbuf

\* A run with a payload in which the stream took the buffer in three pieces.
C2_Witness ==
    /\ wpc = "done" /\ wres = "Ok"
    /\ NeverErrored /\ NoZeroWrite
    /\ wabuf # <<>>
    /\ Len(wcalls) = 3

(***************************************************************************)
(* Owned halves: into_split, reunite, drop.                                *)
(*                                                                         *)
(* A UdStream is a wrapper [tok |-> [fd]] of the runtime's stream.  An     *)
(* owned half is a wrapper [tok |-> [fd, arc, call]] of the runtime's      *)
(* half: `arc` is the address of the allocation the two halves of one      *)
(* into_split share (what reunite compares), `call` is a history field,    *)
(* the number of the into_split call that made the half.                   *)
(***************************************************************************)
Fds == 1..NumConns
Arcs == 1..NumConns

UdStream_from(stream_tok) == [tok |-> stream_tok]
OwnedReadHalf_from(read_tok) == [tok |-> read_tok]
OwnedWriteHalf_from(write_tok) == [tok |-> write_tok]

\* The allocations some live half still points to.
LiveArcs == {h.tok.arc : h \in rhalves \cup whalves}

\* The pair into_split returns for stream s: the runtime's two halves, which
\* share the allocation `arc`, each wrapped.
SplitHalves(s, arc, call) ==
    LET read_tok == [fd |-> s.tok.fd, arc |-> arc, call |-> call]
        write_tok == [fd |-> s.tok.fd, arc |-> arc, call |-> call]
    IN  [read |-> OwnedReadHalf_from(read_tok), write |-> OwnedWriteHalf_from(write_tok)]

\* UdStream::into_split(self): consumes the stream; the two halves share a
\* fresh allocation `arc`.
into_split_keeping(s, arc) ==
    /\ s \in streams
    /\ arc \in Arcs \ LiveArcs
    /\ nsplits < MaxSplits
    /\ LET h == SplitHalves(s, arc, nsplits + 1)
       IN  /\ rhalves' = rhalves \cup {h.read}
           /\ whalves' = whalves \cup {h.write}
    /\ streams' = streams
    /\ nsplits' = nsplits + 1
    /\ splitLog' = Append(splitLog, [stream |-> s, sock |-> sock[s.tok.fd]])
    /\ lastReunite' = NoReunite
    /\ UNCHANGED sock
    /\ UNCHANGED <<wvars, pvars, nvars, rvars, vvars, evars, tvars, hvars, fvars>>

into_split(s, arc) ==
    /\ s \in streams
    /\ arc \in Arcs \ LiveArcs
    /\ nsplits < MaxSplits
    /\ LET h == SplitHalves(s, arc, nsplits + 1)
       IN  /\ rhalves' = rhalves \cup {h.read}
           /\ whalves' = whalves \cup {h.write}
    /\ streams' = streams \ {s}
    /\ nsplits' = nsplits + 1
    /\ splitLog' = Append(splitLog, [stream |-> s, sock |-> sock[s.tok.fd]])
    /\ lastReunite' = NoReunite
    /\ UNCHANGED sock
    /\ UNCHANGED <<wvars, pvars, nvars, rvars, vvars, evars, tvars, hvars, fvars>>

\* From<TokioReuniteError> for ReuniteError: rewraps the two halves.
ReuniteError_from(read_tok, write_tok) ==
    [read |-> OwnedReadHalf_from(read_tok), write |-> OwnedWriteHalf_from(write_tok)]

\* UdStream::reunite(read, write): unwraps the halves and reunites them in
\* the runtime, which compares the allocations they point to.  `shut` is the
\* set of directions of the descriptor the call shuts down: none, the write
\* half being forgotten rather than dropped on success and handed back on
\* failure.
reunite_unchecked(read, write) ==
    LET read_tok == read.tok
        write_tok == write.tok
    IN  [ok |-> TRUE, stream |-> UdStream_from([fd |-> read_tok.fd]),
         errRead |-> NoHalf, errWrite |-> NoHalf, shut |-> {}]

reunite_dropping_write(read, write) ==
    LET read_tok == read.tok
        write_tok == write.tok
    IN  IF read_tok.arc = write_tok.arc
        THEN [ok |-> TRUE, stream |-> UdStream_from([fd |-> read_tok.fd]),
              errRead |-> NoHalf, errWrite |-> NoHalf, shut |-> {"wr"}]
        ELSE LET e == ReuniteError_from(read_tok, write_tok)
             IN  [ok |-> FALSE, stream |-> NoStream,
                  errRead |-> e.read, errWrite |-> e.write, shut |-> {}]

reunite(read, write) ==
    LET read_tok == read.tok
        write_tok == write.tok
    IN  IF read_tok.arc = write_tok.arc
        THEN [ok |-> TRUE, stream |-> UdStream_from([fd |-> read_tok.fd]),
              errRead |-> NoHalf, errWrite |-> NoHalf, shut |-> {}]
        ELSE LET e == ReuniteError_from(read_tok, write_tok)
             IN  [ok |-> FALSE, stream |-> NoStream,
                  errRead |-> e.read, errWrite |-> e.write, shut |-> {}]

\* A directional shutdown of descriptor fd.
Shut(sk, fd, dirs) ==
    [sk EXCEPT ![fd] = [open |-> @.open,
                        rd |-> @.rd /\ "rd" \notin dirs,
                        wr |-> @.wr /\ "wr" \notin dirs]]

\* The caller passes two halves it owns to reunite.  On failure the halves
\* the error carries are the caller's again.
Reunite(read, write) ==
    /\ read \in rhalves
    /\ write \in whalves
    /\ LET r == reunite(read, write)
       IN  /\ lastReunite' =
                 [called |-> TRUE, ok |-> r.ok, read |-> read, write |-> write,
                  stream |-> r.stream, errRead |-> r.errRead,
                  errWrite |-> r.errWrite, sockBefore |-> sock]
           /\ sock' = Shut(sock, read.tok.fd, r.shut)
           /\ IF r.ok
              THEN /\ rhalves' = rhalves \ {read}
                   /\ whalves' = whalves \ {write}
                   /\ streams' = streams \cup {r.stream}
              ELSE /\ rhalves' = (rhalves \ {read}) \cup {r.errRead}
                   /\ whalves' = (whalves \ {write}) \cup {r.errWrite}
                   /\ streams' = streams
    /\ UNCHANGED <<nsplits, splitLog>>
    /\ UNCHANGED <<wvars, pvars, nvars, rvars, vvars, evars, tvars, hvars, fvars>>

\* The descriptor is closed when the last half pointing to the shared
\* allocation goes away.
CloseIfLast(sk, fd, others) ==
    IF others = {} THEN [sk EXCEPT ![fd] = [open |-> FALSE, rd |-> FALSE, wr |-> FALSE]]
    ELSE sk

\* Dropping an owned read half: "Dropping either half will shut it down."
DropReadHalf_both(read) ==
    /\ read \in rhalves
    /\ rhalves' = rhalves \ {read}
    /\ sock' = CloseIfLast(Shut(sock, read.tok.fd, {"rd", "wr"}), read.tok.fd,
                           {w \in whalves : w.tok.arc = read.tok.arc})
    /\ lastReunite' = NoReunite
    /\ UNCHANGED <<streams, whalves, nsplits, splitLog>>
    /\ UNCHANGED <<wvars, pvars, nvars, rvars, vvars, evars, tvars, hvars, fvars>>

DropReadHalf(read) ==
    /\ read \in rhalves
    /\ rhalves' = rhalves \ {read}
    /\ sock' = CloseIfLast(Shut(sock, read.tok.fd, {"rd"}), read.tok.fd,
                           {w \in whalves : w.tok.arc = read.tok.arc})
    /\ lastReunite' = NoReunite
    /\ UNCHANGED <<streams, whalves, nsplits, splitLog>>
    /\ UNCHANGED <<wvars, pvars, nvars, rvars, vvars, evars, tvars, hvars, fvars>>

\* Dropping an owned write half.
DropWriteHalf(write) ==
    /\ write \in whalves
    /\ whalves' = whalves \ {write}
    /\ sock' = CloseIfLast(Shut(sock, write.tok.fd, {"wr"}), write.tok.fd,
                           {r \in rhalves : r.tok.arc = write.tok.arc})
    /\ lastReunite' = NoReunite
    /\ UNCHANGED <<streams, rhalves, nsplits, splitLog>>
    /\ UNCHANGED <<wvars, pvars, nvars, rvars, vvars, evars, tvars, hvars, fvars>>

InitSplit ==
    /\ FmtIdle
    /\ HalvesIdle
    /\ TwinIdle
    /\ EndToEndIdle
    /\ VecIdle
    /\ WriteIdle
    /\ ReadIdle
    /\ NameIdle
    /\ PollIdle
    /\ streams = {UdStream_from([fd |-> f]) : f \in Fds}
    /\ rhalves = {}
    /\ whalves = {}
    /\ sock = [f \in Fds |-> [open |-> TRUE, rd |-> TRUE, wr |-> TRUE]]
    /\ nsplits = 0
    /\ splitLog = <<>>
    /\ lastReunite = NoReunite

NextSplit ==
    \/ \E s \in streams, arc \in Arcs : into_split(s, arc)
    \/ \E read \in rhalves, write \in whalves : Reunite(read, write)
    \/ \E read \in rhalves : DropReadHalf(read)
    \/ \E write \in whalves : DropWriteHalf(write)

SpecSplit == InitSplit /\ [][NextSplit]_vars

(***************************************************************************)
(* Properties of split / reunite.                                          *)
(***************************************************************************)

\* C3: reunite(read, write) succeeds exactly when the two halves were made by
\* the same into_split call; when it fails, the error carries the two halves
\* supplied, unchanged, both are still live and no direction of any
\* descriptor was shut down by the attempt.
C3_ReuniteIffSameSplit ==
    lastReunite.called =>
        /\ lastReunite.ok <=> (lastReunite.read.tok.call = lastReunite.write.tok.call)
        /\ ~lastReunite.ok =>
              /\ lastReunite.errRead = lastReunite.read
              /\ lastReunite.errWrite = lastReunite.write
              /\ lastReunite.read \in rhalves
              /\ lastReunite.write \in whalves
              /\ sock = lastReunite.sockBefore
              /\ lastReunite.stream \notin streams

\* A failed reunite of halves of two different connections, one of them made
\* by a second split of its connection.
C3_Witness ==
    /\ lastReunite.called /\ ~lastReunite.ok
    /\ lastReunite.read.tok.fd # lastReunite.write.tok.fd
    /\ nsplits = 3

\* C4: reunite inverts into_split.  For every live stream the halves
\* into_split makes of it reunite into that stream; and whenever halves are
\* reunited the stream obtained is the one their into_split call consumed,
\* over the same descriptor, which is open in both directions as it was when
\* it was split.
C4_ReuniteInvertsIntoSplit ==
    /\ \A s \in streams, arc \in Arcs :
          LET h == SplitHalves(s, arc, nsplits + 1)
              r == reunite(h.read, h.write)
          IN  r.ok /\ r.stream = s /\ r.shut = {}
    /\ (lastReunite.called /\ lastReunite.ok) =>
          LET sp == splitLog[lastReunite.read.tok.call]
              fd == lastReunite.stream.tok.fd
          IN  /\ lastReunite.stream = sp.stream
              /\ lastReunite.stream \in streams
              /\ sock[fd] = sp.sock
              /\ sock[fd] = [open |-> TRUE, rd |-> TRUE, wr |-> TRUE]

\* The second split / reunite round trip of one connection has completed.
C4_Witness ==
    /\ lastReunite.called /\ lastReunite.ok
    /\ lastReunite.read.tok.call = 2
    /\ splitLog[1].stream = splitLog[2].stream

\* C5: an open descriptor is held either by exactly one unsplit stream and no
\* owned half, or by no stream and the halves of one into_split call (at most
\* one read half and one write half, pointing to the same allocation); a
\* closed descriptor is held by nothing.
C5_ExclusiveOwnership ==
    \A f \in Fds :
        LET ss == {s \in streams : s.tok.fd = f}
            rs == {h \in rhalves : h.tok.fd = f}
            ws == {h \in whalves : h.tok.fd = f}
        IN  /\ sock[f].open =>
                  \/ Cardinality(ss) = 1 /\ rs \cup ws = {}
                  \/ ss = {} /\ rs \cup ws # {}
            /\ ~sock[f].open => ss = {} /\ rs \cup ws = {}
            /\ Cardinality(rs) <= 1
            /\ Cardinality(ws) <= 1
            /\ \A r \in rs, w \in ws :
                  r.tok.call = w.tok.call /\ r.tok.arc = w.tok.arc

\* One connection was split again after a reunite and is split now, next to a
\* connection that is unsplit.
C5_Witness ==
    /\ nsplits >= 2
    /\ lastReunite = NoReunite
    /\ \E r \in rhalves, w \in whalves : r.tok.call = 2 /\ w.tok.call = 2
    /\ streams # {}

\* C14: a connection of which only the write half is left (the read half was
\* dropped) is open with exactly the read direction shut down, as after
\* shutdown(Read); one of which only the read half is left is open with
\* exactly the write direction shut down; and every live half, like every
\* unsplit stream, has its own direction open, whatever was split, reunited
\* or dropped before.
C14_DropShutsOwnDirection ==
    /\ \A w \in whalves :
          /\ sock[w.tok.fd].open /\ sock[w.tok.fd].wr
          /\ (\A r \in rhalves : r.tok.fd # w.tok.fd) =>
                sock[w.tok.fd] =
                    Shut([f \in Fds |-> [open |-> TRUE, rd |-> TRUE, wr |-> TRUE]],
                         w.tok.fd, {"rd"})[w.tok.fd]
    /\ \A r \in rhalves :
          /\ sock[r.tok.fd].open /\ sock[r.tok.fd].rd
          /\ (\A w \in whalves : w.tok.fd # r.tok.fd) =>
                sock[r.tok.fd] =
                    Shut([f \in Fds |-> [open |-> TRUE, rd |-> TRUE, wr |-> TRUE]],
                         r.tok.fd, {"wr"})[r.tok.fd]
    /\ \A s \in streams :
          sock[s.tok.fd] = [open |-> TRUE, rd |-> TRUE, wr |-> TRUE]

\* After a split / reunite round trip a connection was split again and its
\* read half dropped; the write half is live.
C14_Witness ==
    /\ nsplits >= 2
    /\ \E w \in whalves :
          /\ w.tok.call = 2
          /\ splitLog[1].stream = splitLog[2].stream
          /\ \A r \in rhalves : r.tok.fd # w.tok.fd
          /\ ~sock[w.tok.fd].rd /\ sock[w.tok.fd].wr

(***************************************************************************)
(* The readiness retry loop of poll_read_ancillary_vectored and            *)
(* poll_write_ancillary_vectored.                                          *)
(*                                                                         *)
(* The runtime keeps, per descriptor and direction, a cached readiness     *)
(* that the reactor sets when it delivers an event.  poll_read_ready /     *)
(* poll_write_ready answer from that cache: ready at once when it is set,  *)
(* otherwise they register the task's waker and answer Pending.  The cache *)
(* is cleared only by the runtime's own I/O methods; recvmsg and sendmsg   *)
(* are made on the raw descriptor (slf.as_fd()).                           *)
(***************************************************************************)
Dirs == {"read", "write"}

\* What ancwrap::recvmsg / ancwrap::sendmsg can return on the non-blocking
\* descriptor: a byte count when the direction is ready, WouldBlock when it
\* is not, a hard error in either case.
SyscallOutcomes(isReady) ==
    (IF isReady THEN {[kind |-> "Ok", n |-> k] : k \in 0..1}
                ELSE {[kind |-> "WouldBlock", n |-> 0]})
        \cup {[kind |-> "ConnectionReset", n |-> 0]}

\* The match on the syscall's result: Ok and a hard error return from the
\* poll function, WouldBlock falls through to the readiness poll.
poll_ancillary_match_surfacing(o) ==
    [pc |-> "done", res |-> o]

poll_ancillary_match_retrying(o) ==
    IF o.kind = "Ok" THEN [pc |-> "done", res |-> o]
    ELSE IF o.kind = "WouldBlock" THEN [pc |-> "ready", res |-> NoResult]
    ELSE [pc |-> "attempt", res |-> NoResult]

poll_ancillary_match(o) ==
    IF o.kind = "Ok" THEN [pc |-> "done", res |-> o]
    ELSE IF o.kind = "WouldBlock" THEN [pc |-> "ready", res |-> NoResult]
    ELSE [pc |-> "done", res |-> o]

\* The caller starts a read (d = "read") or a write and polls it.
PollStart(d) ==
    /\ ppc = "idle"
    /\ pops < MaxOps
    /\ pops' = pops + 1
    /\ pdir' = d
    /\ ppc' = "attempt"
    /\ pres' = NoResult
    /\ plast' = "none"
    /\ pblocked' = FALSE
    /\ UNCHANGED <<kready, pevent, readiness, waker, woken>>
    /\ UNCHANGED <<wvars, svars, nvars, rvars, vvars, evars, tvars, hvars, fvars>>

\* match ancwrap::recvmsg(slf.as_fd(), bufs, abuf, None) { ... }, and the
\* same for sendmsg.  A successful call may leave the direction ready or not.
PollAttempt ==
    /\ ppc = "attempt"
    /\ \E o \in SyscallOutcomes(kready[pdir]) :
          LET m == poll_ancillary_match(o)
          IN  /\ ppc' = m.pc
              /\ pres' = m.res
              /\ plast' = o.kind
              /\ pblocked' = (o.kind = "WouldBlock")
              /\ IF o.kind = "Ok"
                 THEN \E still \in BOOLEAN : kready' = [kready EXCEPT ![pdir] = still]
                 ELSE kready' = kready
    /\ UNCHANGED <<pdir, pevent, readiness, waker, woken, pops>>
    /\ UNCHANGED <<wvars, svars, nvars, rvars, vvars, evars, tvars, hvars, fvars>>

\* What poll_read_ready / poll_write_ready answers: Ready(Ok) from the cached
\* readiness, else Pending; Ready(Err) when the runtime is gone.
PollReadyOutcomes(cached) ==
    (IF cached THEN {"ReadyOk"} ELSE {"Pending"}) \cup {"ReadyErr"}

\* ready!(slf.0.poll_read_ready(cx))?; and the same for poll_write_ready.
PollReady_no_waker ==
    /\ ppc = "ready"
    /\ \E r \in PollReadyOutcomes(readiness[pdir]) :
          \/ /\ r = "ReadyOk"
             /\ ppc' = "attempt"
             /\ UNCHANGED <<pres, waker>>
          \/ /\ r = "Pending"
             /\ ppc' = "pending"
             /\ UNCHANGED <<pres, waker>>
          \/ /\ r = "ReadyErr"
             /\ ppc' = "done"
             /\ pres' = [kind |-> "Other", n |-> 0]
             /\ UNCHANGED waker
    /\ UNCHANGED <<pdir, plast, kready, pevent, readiness, woken, pblocked, pops>>
    /\ UNCHANGED <<wvars, svars, nvars, rvars, vvars, evars, tvars, hvars, fvars>>

PollReady ==
    /\ ppc = "ready"
    /\ \E r \in PollReadyOutcomes(readiness[pdir]) :
          \/ /\ r = "ReadyOk"
             /\ ppc' = "attempt"
             /\ UNCHANGED <<pres, waker>>
          \/ /\ r = "Pending"
             /\ ppc' = "pending"
             /\ waker' = waker \cup {pdir}
             /\ UNCHANGED pres
          \/ /\ r = "ReadyErr"
             /\ ppc' = "done"
             /\ pres' = [kind |-> "Other", n |-> 0]
             /\ UNCHANGED waker
    /\ UNCHANGED <<pdir, plast, kready, pevent, readiness, woken, pblocked, pops>>
    /\ UNCHANGED <<wvars, svars, nvars, rvars, vvars, evars, tvars, hvars, fvars>>

\* The task was woken: the executor polls the operation again, which starts
\* at the top of the loop.
Repoll_after_drop ==
    /\ ppc \in {"pending", "dropped"}
    /\ woken
    /\ woken' = FALSE
    /\ ppc' = "attempt"
    /\ UNCHANGED <<pdir, pres, plast, kready, pevent, readiness, waker, pblocked, pops>>
    /\ UNCHANGED <<wvars, svars, nvars, rvars, vvars, evars, tvars, hvars, fvars>>

Repoll ==
    /\ ppc = "pending"
    /\ woken
    /\ woken' = FALSE
    /\ ppc' = "attempt"
    /\ UNCHANGED <<pdir, pres, plast, kready, pevent, readiness, waker, pblocked, pops>>
    /\ UNCHANGED <<wvars, svars, nvars, rvars, vvars, evars, tvars, hvars, fvars>>

\* The caller takes the result.
PollFinish ==
    /\ ppc = "done"
    /\ ppc' = "idle"
    /\ UNCHANGED <<pdir, pres, plast, kready, pevent, readiness, waker, woken,
                   pblocked, pops>>
    /\ UNCHANGED <<wvars, svars, nvars, rvars, vvars, evars, tvars, hvars, fvars>>

\* Environment: direction d of the descriptor becomes ready (data arrives,
\* send buffer space frees up); the kernel queues an event for the reactor.
KernelReady(d) ==
    /\ ~kready[d]
    /\ kready' = [kready EXCEPT ![d] = TRUE]
    /\ pevent' = [pevent EXCEPT ![d] = TRUE]
    /\ UNCHANGED <<pdir, ppc, pres, plast, readiness, waker, woken, pblocked, pops>>
    /\ UNCHANGED <<wvars, svars, nvars, rvars, vvars, evars, tvars, hvars, fvars>>

\* Environment: the reactor delivers the event: it caches the readiness and
\* wakes the waker registered for the direction.
ReactorDeliver(d) ==
    /\ pevent[d]
    /\ pevent' = [pevent EXCEPT ![d] = FALSE]
    /\ readiness' = [readiness EXCEPT ![d] = TRUE]
    /\ woken' = (woken \/ d \in waker)
    /\ waker' = waker \ {d}
    /\ pblocked' = (pblocked /\ d # pdir)
    /\ UNCHANGED <<pdir, ppc, pres, plast, kready, pops>>
    /\ UNCHANGED <<wvars, svars, nvars, rvars, vvars, evars, tvars, hvars, fvars>>

InitPoll ==
    /\ FmtIdle
    /\ HalvesIdle
    /\ TwinIdle
    /\ EndToEndIdle
    /\ VecIdle
    /\ WriteIdle
    /\ ReadIdle
    /\ NameIdle
    /\ SplitIdle
    /\ pdir = "read"
    /\ ppc = "idle"
    /\ pres = NoResult
    /\ plast = "none"
    /\ kready \in [Dirs -> BOOLEAN]
    /\ pevent = kready
    /\ readiness = [d \in Dirs |-> FALSE]
    /\ waker = {}
    /\ woken = FALSE
    /\ pblocked = FALSE
    /\ pops = 0

NextPoll ==
    \/ \E d \in Dirs : PollStart(d)
    \/ PollAttempt
    \/ PollReady
    \/ Repoll
    \/ PollFinish
    \/ \E d \in Dirs : KernelReady(d)
    \/ \E d \in Dirs : ReactorDeliver(d)

SpecPoll == InitPoll /\ [][NextPoll]_vars

\* The same loop under fair scheduling: a poll function that was entered runs
\* on (PollAttempt, PollReady), the executor polls a task that was woken
\* (Repoll) and the reactor delivers the events it has (ReactorDeliver).
\* Nothing obliges the descriptor to become ready or the caller to start an
\* operation or to take its result.
SpecPollFair ==
    InitPoll /\ [][NextPoll]_vars
        /\ WF_vars(PollAttempt) /\ WF_vars(PollReady) /\ WF_vars(Repoll)
        /\ WF_vars(\E d \in Dirs : ReactorDeliver(d))

\* The caller abandons the operation: it drops the future, which it can do
\* only while the operation is not being polled, that is after a poll
\* returned Pending.  The poll function is not called for it again; the
\* waker the last poll registered stays with the runtime.
Abandon ==
    /\ ppc = "pending"
    /\ ppc' = "dropped"
    /\ UNCHANGED <<pdir, pres, plast, kready, pevent, readiness, waker, woken,
                   pblocked, pops>>
    /\ UNCHANGED <<wvars, svars, nvars, rvars, vvars, evars, tvars, hvars, fvars>>

NextCancel ==
    \/ NextPoll
    \/ Abandon

SpecCancel == InitPoll /\ [][NextCancel]_vars

(***************************************************************************)
(* Properties of the readiness retry loop.                                 *)
(***************************************************************************)

\* C6: the last raw attempt of an operation decides it three ways.  If it
\* succeeded the operation is over with that result; if it failed hard the
\* operation is over with that error (so it was not tried again); if it would
\* block the operation goes on inside the loop or suspended, and ends, if at
\* all, with something other than WouldBlock.  No operation ever resolves to
\* WouldBlock.
C6_ThreeOutcomes ==
    /\ plast = "Ok" =>
          ppc \in {"done", "idle"} /\ pres.kind = "Ok"
    /\ plast = "ConnectionReset" =>
          ppc \in {"done", "idle"} /\ pres = [kind |-> "ConnectionReset", n |-> 0]
    /\ plast = "WouldBlock" =>
          \/ ppc \in {"ready", "pending", "attempt"} /\ pres = NoResult
          \/ ppc \in {"done", "idle"} /\ pres.kind = "Other"
    /\ pres.kind # "WouldBlock"
    /\ ppc = "done" => pres.kind \in {"Ok", "ConnectionReset", "Other"}

\* An operation ended with a hard error of its second attempt, the would-block
\* of the first having been absorbed.
C6_Witness ==
    /\ ppc = "done"
    /\ plast = "ConnectionReset"
    /\ pres.kind = "ConnectionReset"
    /\ readiness[pdir]
    /\ pdir = "write"

\* C7: after a raw attempt would block the operation is suspended with its
\* waker registered in its own direction, and the syscall is not attempted
\* again before the reactor has delivered a readiness event.
C7_NoRetryBeforeNotification ==
    /\ ppc = "pending" => (pdir \in waker \/ woken)
    /\ ppc = "attempt" => ~pblocked

\* C17: once an operation is abandoned nothing is done on its behalf any
\* more: no recvmsg / sendmsg is attempted (an attempt would move the
\* operation and set the outcome of its last attempt), it never resolves,
\* and what the descriptor holds is not taken (a direction that is ready
\* stays ready), so the descriptor and the buffers stay as the last attempt
\* left them, also when the reactor wakes the task afterwards.
C17_NoAttemptAfterAbandon ==
    [][ppc = "dropped" =>
          /\ ppc' = "dropped"
          /\ plast' = plast
          /\ pres' = pres
          /\ pops' = pops
          /\ \A d \in Dirs : kready[d] => kready'[d]]_vars

\* An abandoned read: its descriptor is ready, the runtime knows it and has
\* woken the task, and still nothing was attempted after the would-block.
C17_Witness ==
    /\ ppc = "dropped"
    /\ pdir = "read"
    /\ plast = "WouldBlock"
    /\ kready["read"] /\ readiness["read"]
    /\ woken

\* C19: an operation in flight whose descriptor is ready in its direction
\* completes, with a success or an error; a suspended one is polled again
\* (it is Attempting again) on the way.  The descriptor stays ready until
\* the operation's own recvmsg / sendmsg takes what it holds.
C19_EventuallyCompletes ==
    /\ ((ppc \in {"attempt", "ready", "pending"} /\ kready[pdir])
            ~> (ppc = "done" /\ pres.kind \in {"Ok", "ConnectionReset", "Other"}))
    /\ ((ppc = "pending" /\ kready[pdir]) ~> (ppc = "attempt"))

\* A second operation, a write, is suspended; the descriptor is ready for it
\* and the reactor has woken the task.
C19_Witness ==
    /\ ppc = "pending"
    /\ pdir = "write"
    /\ pops = 2
    /\ kready["write"]
    /\ woken

(***************************************************************************)
(* Name resolution.                                                        *)
(***************************************************************************)
Targets == {"linux", "android", "macos", "freebsd"}

\* Bytes of a name: NUL, '/' and 'a'.
NameBytes == {0, 47, 97}

\* cfg(any(target_os = "linux", target_os = "android"))
cfg_linux_or_android(target) == target \in {"linux", "android"}

\* cfg(uds_linux_namespace), which the build script sets for the targets
\* that have the abstract namespace.
cfg_uds_linux_namespace(target) == target \in {"linux", "android"}

\* SocketAddr::from_abstract_name(name): any bytes, no filesystem entry.
from_abstract_name(bytes) ==
    [ok |-> TRUE, kind |-> "abstract", bytes |-> bytes, err |-> "none"]

\* SocketAddr::from_pathname(path): the bytes verbatim; a path with a NUL byte
\* is refused.
from_pathname(bytes) ==
    IF \E i \in DOMAIN bytes : bytes[i] = 0
    THEN [ok |-> FALSE, kind |-> "none", bytes |-> <<>>, err |-> "InvalidInput"]
    ELSE [ok |-> TRUE, kind |-> "path", bytes |-> bytes, err |-> "none"]

\* name_to_addr(name)
name_to_addr(target, name) ==
    LET _is_ns == name.namespaced
        inner == name.inner
    IN  IF cfg_linux_or_android(target) /\ _is_ns
        THEN from_abstract_name(inner)
        ELSE from_pathname(inner)

\* NAME_TYPE_ALWAYS_SUPPORTED
NAME_TYPE_ALWAYS_SUPPORTED(target) ==
    IF cfg_uds_linux_namespace(target) THEN "Both" ELSE "OnlyPaths"

\* name_type_support_query()
name_type_support_query(target) == NAME_TYPE_ALWAYS_SUPPORTED(target)

\* A name is resolved and the capability queried in the same build.
Resolve ==
    /\ npc = "call"
    /\ nres' = name_to_addr(ntarget, nname)
    /\ nquery' = name_type_support_query(ntarget)
    /\ npc' = "done"
    /\ UNCHANGED <<ntarget, nname>>
    /\ UNCHANGED <<wvars, svars, pvars, rvars, vvars, evars, tvars, hvars, fvars>>

InitName ==
    /\ FmtIdle
    /\ HalvesIdle
    /\ TwinIdle
    /\ EndToEndIdle
    /\ VecIdle
    /\ WriteIdle
    /\ ReadIdle
    /\ SplitIdle
    /\ PollIdle
    /\ ntarget \in Targets
    /\ nname \in [inner : SeqsUpTo(NameBytes, MaxNameLen), namespaced : BOOLEAN]
    /\ nres = NoAddr
    /\ nquery = "none"
    /\ npc = "call"

NextName == Resolve

SpecName == InitName /\ [][NextName]_vars

(***************************************************************************)
(* Properties of name resolution.                                          *)
(***************************************************************************)

\* A path name is well formed when it has no NUL byte.
WellFormed(name) == \A i \in DOMAIN name.inner : name.inner[i] # 0

\* C8: in every build, resolving a namespaced name succeeds exactly when
\* name_type_support_query() reports Both or OnlyNamespaced and fails with
\* an unsupported-name-kind error otherwise; resolving a well-formed
\* non-namespaced name yields a path address.
C8_ResolveAgreesWithQuery ==
    npc = "done" =>
        /\ nname.namespaced =>
              /\ nres.ok <=> nquery \in {"Both", "OnlyNamespaced"}
              /\ ~nres.ok => nres.err = "Unsupported"
        /\ (~nname.namespaced /\ WellFormed(nname)) =>
              nres.ok /\ nres.kind = "path"

(***************************************************************************)
(* The derived reads: read_ancillary_to_end, read_to_end_with_ancillary    *)
(* and read_exact_with_ancillary.                                          *)
(*                                                                         *)
(* The input is a sequence of chunks [main, anc]: the main-band bytes of   *)
(* one message of the peer and the control messages that travel with its   *)
(* first byte.  An ancillary buffer is [data, cap, growable].              *)
(***************************************************************************)
ReadOps == {"read_ancillary_to_end", "read_to_end_with_ancillary",
            "read_exact_with_ancillary"}
ToEndOps == {"read_ancillary_to_end", "read_to_end_with_ancillary"}

ChunkMains == {<<1>>, <<2, 1>>}
ChunkAncs == {<<>>, <<7, 8>>}
Chunks == [main : ChunkMains, anc : ChunkAncs]

Min(a, b) == IF a < b THEN a ELSE b
Max(a, b) == IF a > b THEN a ELSE b

\* ReadAncillarySuccess::default() and <ReadAncillarySuccess as Add>::add
ReadAncillarySuccess_default == [main |-> 0, ancillary |-> 0]
ReadAncillarySuccess_add_swapped(self, rhs) ==
    [main |-> self.main + rhs.main, ancillary |-> self.ancillary + rhs.main]

ReadAncillarySuccess_add(self, rhs) ==
    [main |-> self.main + rhs.main, ancillary |-> self.ancillary + rhs.ancillary]

\* CmsgMut::reserve_up_to_exact(additional): a growable buffer makes room for
\* `additional` more bytes as far as it can, a fixed one stays as it is.
reserve_up_to_exact(abuf, additional) ==
    IF abuf.growable
    THEN [abuf EXCEPT !.cap = Max(@, Min(Len(abuf.data) + additional, AbufLimit))]
    ELSE abuf

\* ReadAncillary::read_ancillary(buf, abuf) on the stream, buf.len() = n:
\* at most n bytes of the first chunk, and as much of its control data as the
\* ancillary buffer has room for (the rest is cut off); at end-of-stream
\* nothing.
read_ancillary(stream, n, abuf) ==
    IF stream = <<>>
    THEN [sc |-> [main |-> 0, ancillary |-> 0], bytes |-> <<>>,
          stream |-> stream, abuf |-> abuf]
    ELSE LET c == Head(stream)
             k == Min(n, Len(c.main))
             a == Min(Len(c.anc), abuf.cap - Len(abuf.data))
         IN  [sc |-> [main |-> k, ancillary |-> a],
              bytes |-> Prefix(c.main, k),
              stream |-> IF k < Len(c.main)
                         THEN <<[main |-> Suffix(c.main, k), anc |-> <<>>]>> \o Tail(stream)
                         ELSE Tail(stream),
              abuf |-> [abuf EXCEPT !.data = @ \o Prefix(c.anc, a)]]

\* <ReadAncillaryPartAppl as Read>::read(buf), buf.len() = n, where the
\* underlying read_ancillary fails with `err` unless err = "none".  Yields the
\* io::Result<usize> (ok, n, kind), the partial application's fields
\* afterwards and the underlying call as made.
ReadAncillaryPartAppl_read_last(stream, n, abuf, ret, reserve, err) ==
    LET ab == IF reserve THEN reserve_up_to_exact(abuf, n) ELSE abuf
        r == read_ancillary(stream, n, ab)
    IN  IF err # "none"
        THEN [ok |-> FALSE, n |-> 0, kind |-> err, bytes |-> <<>>,
              stream |-> stream, abuf |-> ab, ret |-> ret,
              call |-> [ok |-> FALSE, sc |-> ReadAncillarySuccess_default,
                        reserved |-> reserve]]
        ELSE [ok |-> TRUE, n |-> r.sc.main, kind |-> "none", bytes |-> r.bytes,
              stream |-> r.stream, abuf |-> r.abuf,
              ret |-> r.sc,
              call |-> [ok |-> TRUE, sc |-> r.sc, reserved |-> reserve]]

ReadAncillaryPartAppl_read_anc(stream, n, abuf, ret, reserve, err) ==
    LET ab == IF reserve THEN reserve_up_to_exact(abuf, n) ELSE abuf
        r == read_ancillary(stream, n, ab)
    IN  IF err # "none"
        THEN [ok |-> FALSE, n |-> 0, kind |-> err, bytes |-> <<>>,
              stream |-> stream, abuf |-> ab, ret |-> ret,
              call |-> [ok |-> FALSE, sc |-> ReadAncillarySuccess_default,
                        reserved |-> reserve]]
        ELSE [ok |-> TRUE, n |-> IF reserve THEN r.sc.ancillary ELSE r.sc.main,
              kind |-> "none", bytes |-> r.bytes,
              stream |-> r.stream, abuf |-> r.abuf,
              ret |-> ReadAncillarySuccess_add(ret, r.sc),
              call |-> [ok |-> TRUE, sc |-> r.sc, reserved |-> reserve]]

ReadAncillaryPartAppl_read_try_reserve(stream, n, abuf, ret, reserve, err) ==
    LET ab == IF reserve THEN reserve_up_to_exact(abuf, n) ELSE abuf
        r == read_ancillary(stream, n, ab)
    IN  IF reserve /\ ~abuf.growable
        THEN [ok |-> FALSE, n |-> 0, kind |-> "Unsupported", bytes |-> <<>>,
              stream |-> stream, abuf |-> ab, ret |-> ret,
              call |-> [ok |-> FALSE, sc |-> ReadAncillarySuccess_default,
                        reserved |-> reserve]]
        ELSE IF err # "none"
        THEN [ok |-> FALSE, n |-> 0, kind |-> err, bytes |-> <<>>,
              stream |-> stream, abuf |-> ab, ret |-> ret,
              call |-> [ok |-> FALSE, sc |-> ReadAncillarySuccess_default,
                        reserved |-> reserve]]
        ELSE [ok |-> TRUE, n |-> r.sc.main, kind |-> "none", bytes |-> r.bytes,
              stream |-> r.stream, abuf |-> r.abuf,
              ret |-> ReadAncillarySuccess_add(ret, r.sc),
              call |-> [ok |-> TRUE, sc |-> r.sc, reserved |-> reserve]]

ReadAncillaryPartAppl_read_count_all(stream, n, abuf, ret, reserve, err) ==
    LET ab == IF reserve THEN reserve_up_to_exact(abuf, n) ELSE abuf
        r == read_ancillary(stream, n, ab)
    IN  IF err # "none"
        THEN [ok |-> FALSE, n |-> 0, kind |-> err, bytes |-> <<>>,
              stream |-> stream, abuf |-> ab, ret |-> ret,
              call |-> [ok |-> FALSE, sc |-> ReadAncillarySuccess_default,
                        reserved |-> reserve]]
        ELSE [ok |-> TRUE, n |-> r.sc.main, kind |-> "none", bytes |-> r.bytes,
              stream |-> r.stream, abuf |-> r.abuf,
              ret |-> [main |-> ret.main + r.sc.main + r.sc.ancillary,
                       ancillary |-> ret.ancillary + r.sc.ancillary],
              call |-> [ok |-> TRUE, sc |-> r.sc, reserved |-> reserve]]

ReadAncillaryPartAppl_read(stream, n, abuf, ret, reserve, err) ==
    LET \* if self.reserve { let _ = self.abuf.reserve_up_to_exact(buf.len()); }
        ab == IF reserve THEN reserve_up_to_exact(abuf, n) ELSE abuf
        \* let sc = self.slf.read_ancillary(buf, self.abuf)?;
        r == read_ancillary(stream, n, ab)
    IN  IF err # "none"
        THEN [ok |-> FALSE, n |-> 0, kind |-> err, bytes |-> <<>>,
              stream |-> stream, abuf |-> ab, ret |-> ret,
              call |-> [ok |-> FALSE, sc |-> ReadAncillarySuccess_default,
                        reserved |-> reserve]]
        ELSE \* self.ret += sc; Ok(sc.main)
             [ok |-> TRUE, n |-> r.sc.main, kind |-> "none", bytes |-> r.bytes,
              stream |-> r.stream, abuf |-> r.abuf,
              ret |-> ReadAncillarySuccess_add(ret, r.sc),
              call |-> [ok |-> TRUE, sc |-> r.sc, reserved |-> reserve]]

\* The `reserve` field each operation gives its partial application.
ReserveOf(op) == op = "read_ancillary_to_end"

\* The first k bytes of a buffer into which `bytes` were read; what lies
\* past them is whatever the buffer held (0).
Filled(bytes, k) == [i \in 1..k |-> IF i <= Len(bytes) THEN bytes[i] ELSE 0]

\* The operation is called: the partial application is built with
\* ret: Default::default().
read_call ==
    /\ rpc = "call"
    /\ rpc' = "loop"
    /\ rret' = ReadAncillarySuccess_default
    /\ UNCHANGED <<rop, rstream0, rbuf0, rlen, rabuf0, rstream, rbuf, rabuf, rlog,
                   rerrs, rres>>
    /\ UNCHANGED <<wvars, svars, pvars, nvars, vvars, evars, tvars, hvars, fvars>>

\* One iteration of Read::read_to_end(buf): a read into spare capacity of n
\* bytes; Ok(0) ends the operation, Ok(k) appends k bytes, Interrupted tries
\* again, any other error is returned.
read_to_end_iter ==
    /\ rpc = "loop"
    /\ rop \in ToEndOps
    /\ \E n \in 1..MaxReq, err \in {"none"} \cup ErrKinds :
          /\ err = "none" \/ rerrs < MaxReadErrs
          /\ LET r == ReadAncillaryPartAppl_read(rstream, n, rabuf, rret,
                                                 ReserveOf(rop), err)
             IN  /\ rstream' = r.stream
                 /\ rabuf' = r.abuf
                 /\ rret' = r.ret
                 /\ rlog' = IF r.ok THEN Append(rlog, r.call) ELSE rlog
                 /\ rerrs' = IF r.ok THEN rerrs ELSE rerrs + 1
                 /\ IF r.ok
                    THEN /\ rbuf' = rbuf \o Filled(r.bytes, r.n)
                         /\ rpc' = IF r.n = 0 THEN "done" ELSE "loop"
                         /\ rres' = IF r.n = 0 THEN "Ok" ELSE "none"
                    ELSE /\ rbuf' = rbuf
                         /\ rpc' = IF r.kind = "Interrupted" THEN "loop" ELSE "done"
                         /\ rres' = IF r.kind = "Interrupted" THEN "none" ELSE r.kind
    /\ UNCHANGED <<rop, rstream0, rbuf0, rlen, rabuf0>>
    /\ UNCHANGED <<wvars, svars, pvars, nvars, vvars, evars, tvars, hvars, fvars>>

\* One iteration of Read::read_exact(buf): a read into the unfilled rest of
\* the slice; Ok(0) leaves the loop with the slice unfilled, which is
\* UnexpectedEof.
read_exact_iter ==
    /\ rpc = "loop"
    /\ rop = "read_exact_with_ancillary"
    /\ Len(rbuf) < rlen
    /\ \E err \in {"none"} \cup ErrKinds :
          /\ err = "none" \/ rerrs < MaxReadErrs
          /\ LET r == ReadAncillaryPartAppl_read(rstream, rlen - Len(rbuf), rabuf,
                                                 rret, ReserveOf(rop), err)
             IN  /\ rstream' = r.stream
                 /\ rabuf' = r.abuf
                 /\ rret' = r.ret
                 /\ rlog' = IF r.ok THEN Append(rlog, r.call) ELSE rlog
                 /\ rerrs' = IF r.ok THEN rerrs ELSE rerrs + 1
                 /\ IF r.ok
                    THEN /\ rbuf' = rbuf \o Filled(r.bytes, r.n)
                         /\ rpc' = IF r.n = 0 THEN "done" ELSE "loop"
                         /\ rres' = IF r.n = 0 THEN "UnexpectedEof" ELSE "none"
                    ELSE /\ rbuf' = rbuf
                         /\ rpc' = IF r.kind = "Interrupted" THEN "loop" ELSE "done"
                         /\ rres' = IF r.kind = "Interrupted" THEN "none" ELSE r.kind
    /\ UNCHANGED <<rop, rstream0, rbuf0, rlen, rabuf0>>
    /\ UNCHANGED <<wvars, svars, pvars, nvars, vvars, evars, tvars, hvars, fvars>>

\* read_exact finds the slice filled: Ok(partappl.ret).
read_exact_return_short ==
    /\ rpc = "loop"
    /\ rop = "read_exact_with_ancillary"
    /\ Len(rbuf) <= rlen
    /\ rpc' = "done"
    /\ rres' = "Ok"
    /\ UNCHANGED <<rop, rstream0, rbuf0, rlen, rabuf0, rstream, rbuf, rabuf, rret,
                   rlog, rerrs>>
    /\ UNCHANGED <<wvars, svars, pvars, nvars, vvars, evars, tvars, hvars, fvars>>

read_exact_return ==
    /\ rpc = "loop"
    /\ rop = "read_exact_with_ancillary"
    /\ Len(rbuf) = rlen
    /\ rpc' = "done"
    /\ rres' = "Ok"
    /\ UNCHANGED <<rop, rstream0, rbuf0, rlen, rabuf0, rstream, rbuf, rabuf, rret,
                   rlog, rerrs>>
    /\ UNCHANGED <<wvars, svars, pvars, nvars, vvars, evars, tvars, hvars, fvars>>

InitRead ==
    /\ FmtIdle
    /\ HalvesIdle
    /\ TwinIdle
    /\ EndToEndIdle
    /\ VecIdle
    /\ WriteIdle
    /\ SplitIdle
    /\ PollIdle
    /\ NameIdle
    /\ rop \in ReadOps
    /\ rstream0 \in SeqsUpTo(Chunks, MaxChunks)
    /\ rbuf0 \in IF rop \in ToEndOps THEN {<<>>, <<9>>} ELSE {<<>>}
    /\ rlen \in IF rop \in ToEndOps THEN {0} ELSE 0..MaxExact
    /\ rabuf0 \in [data : {<<>>}, cap : 0..AbufLimit, growable : BOOLEAN]
    /\ rstream = rstream0
    /\ rbuf = rbuf0
    /\ rabuf = rabuf0
    /\ rret = ReadAncillarySuccess_default
    /\ rlog = <<>>
    /\ rerrs = 0
    /\ rpc = "call"
    /\ rres = "none"

NextRead ==
    \/ read_call
    \/ read_to_end_iter
    \/ read_exact_iter
    \/ read_exact_return

SpecRead == InitRead /\ [][NextRead]_vars

(***************************************************************************)
(* Properties of the derived reads.                                        *)
(***************************************************************************)

\* The main-band bytes of a stream, in order.
StreamBytes(stream) == Concat([i \in DOMAIN stream |-> stream[i].main])

RECURSIVE SumMain(_)
SumMain(log) == IF log = <<>> THEN 0 ELSE Head(log).sc.main + SumMain(Tail(log))

RECURSIVE SumAncillary(_)
SumAncillary(log) ==
    IF log = <<>> THEN 0 ELSE Head(log).sc.ancillary + SumAncillary(Tail(log))

\* C9: on every input stream and with every ancillary buffer, either of
\* read_ancillary_to_end and read_to_end_with_ancillary, when it reaches
\* end-of-stream, has appended to the main buffer exactly the main-band bytes
\* of the stream (so both append the same bytes), and at any moment the bytes
\* appended so far followed by those still in the stream are the stream's.
\* The operations differ in the reservation alone: read_ancillary_to_end
\* reserves before every underlying read, read_to_end_with_ancillary never
\* does and leaves the capacity of the ancillary buffer as it was.
C9_SameMainBytes ==
    /\ (rpc = "done" /\ rres = "Ok" /\ rop \in ToEndOps)
          => rbuf = rbuf0 \o StreamBytes(rstream0)
    /\ (rpc \in {"loop", "done"} /\ rop \in ToEndOps)
          => rbuf \o StreamBytes(rstream) = rbuf0 \o StreamBytes(rstream0)
    /\ \A i \in DOMAIN rlog : rlog[i].reserved = (rop = "read_ancillary_to_end")
    /\ rop = "read_to_end_with_ancillary" => rabuf.cap = rabuf0.cap

\* read_ancillary_to_end has read a two-chunk stream to its end into a
\* non-empty Vec, growing the ancillary buffer on the way.
C9_Witness ==
    /\ rop = "read_ancillary_to_end"
    /\ rpc = "done" /\ rres = "Ok"
    /\ Len(rstream0) = 2
    /\ rbuf0 = <<9>>
    /\ rabuf.cap > rabuf0.cap
    /\ rabuf.data # <<>>

\* C10: a derived read that succeeds returns the componentwise sum of the
\* (main, ancillary) pairs returned by all the underlying read_ancillary
\* calls it made; the accumulator holds that sum throughout.
C10_ReturnsSumOfReads ==
    /\ (rpc = "done" /\ rres = "Ok")
          => rret = [main |-> SumMain(rlog), ancillary |-> SumAncillary(rlog)]
    /\ rpc = "loop"
          => rret = [main |-> SumMain(rlog), ancillary |-> SumAncillary(rlog)]

\* A successful operation in which two different underlying calls each
\* delivered ancillary bytes.
C10_Witness ==
    /\ rpc = "done" /\ rres = "Ok"
    /\ Cardinality({i \in DOMAIN rlog : rlog[i].sc.ancillary > 0}) = 2
    /\ rret.ancillary = 2
    /\ rret.main = 3

\* C11: read_exact_with_ancillary succeeds only with the slice exactly filled,
\* by the first buf.len() main-band bytes of the stream; when the stream ends
\* (a read of zero main-band bytes) before the slice is full it fails with
\* UnexpectedEof, everything the stream held having been read; a stream
\* shorter than the slice never gives success; and as long as the slice is
\* not full and nothing failed the operation is still reading.
C11_ExactFillOrEof ==
    rop = "read_exact_with_ancillary" =>
        /\ (rpc = "done" /\ rres = "Ok") =>
              /\ Len(rbuf) = rlen
              /\ rbuf = Prefix(StreamBytes(rstream0), rlen)
        /\ (rpc = "done" /\ rres = "UnexpectedEof") =>
              /\ Len(rbuf) < rlen
              /\ rstream = <<>>
              /\ rbuf = StreamBytes(rstream0)
              /\ rlog # <<>> /\ rlog[Len(rlog)].sc.main = 0
        /\ (rpc = "done" /\ Len(StreamBytes(rstream0)) < rlen) => rres # "Ok"
        /\ (rpc = "done" /\ Len(StreamBytes(rstream0)) >= rlen) => rres # "UnexpectedEof"
        /\ rpc = "done" => rres \in {"Ok", "UnexpectedEof", "ConnectionReset"}
        /\ (rpc = "done" /\ rres = "ConnectionReset") => rerrs > 0
        /\ rpc = "loop" =>
              /\ rres = "none"
              /\ Len(rbuf) <= rlen
              /\ rbuf \o StreamBytes(rstream) = StreamBytes(rstream0)

\* The stream ended after two reads had put two bytes into a slice of three.
C11_Witness ==
    /\ rop = "read_exact_with_ancillary"
    /\ rpc = "done" /\ rres = "UnexpectedEof"
    /\ rlen = 3
    /\ Len(rbuf) = 2
    /\ Len(rlog) = 3

\* The control data an ancillary buffer that stays as large as it is holds
\* once the whole stream went through it: of each chunk as much as there is
\* still room for.
RECURSIVE AncillaryKept(_, _)
AncillaryKept(stream, abuf) ==
    IF stream = <<>>
    THEN abuf.data
    ELSE LET c == Head(stream)
             a == Min(Len(c.anc), abuf.cap - Len(abuf.data))
         IN  AncillaryKept(Tail(stream), [abuf EXCEPT !.data = @ \o Prefix(c.anc, a)])

\* C20: with an ancillary buffer that cannot grow, read_ancillary_to_end and
\* read_to_end_with_ancillary alike never fail unless the underlying read
\* failed, leave the capacity as it was, keep reading while the stream has
\* bytes left (also once the ancillary buffer is full), and at end-of-stream
\* have the same main buffer (the stream's bytes appended), the same ancillary
\* contents (of each chunk what still fitted) and the same returned counts,
\* all of them determined by the stream and the buffers alone.
C20_FixedBufferSameAsWithAncillary ==
    (rop \in ToEndOps /\ ~rabuf0.growable) =>
        /\ rabuf.cap = rabuf0.cap
        /\ rres \in {"none", "Ok"} \cup ErrKinds
        /\ rres # "none" => rpc = "done"
        /\ (rpc = "done" /\ rres # "Ok") => rerrs > 0
        /\ rpc \in {"loop", "done"} =>
              /\ AncillaryKept(rstream, rabuf) = AncillaryKept(rstream0, rabuf0)
              /\ rbuf \o StreamBytes(rstream) = rbuf0 \o StreamBytes(rstream0)
              /\ rret = [main |-> Len(rbuf) - Len(rbuf0),
                         ancillary |-> Len(rabuf.data) - Len(rabuf0.data)]
        /\ (rpc = "done" /\ rres = "Ok") =>
              /\ rstream = <<>>
              /\ rbuf = rbuf0 \o StreamBytes(rstream0)
              /\ rabuf.data = AncillaryKept(rstream0, rabuf0)
              /\ rret = [main |-> Len(StreamBytes(rstream0)),
                         ancillary |-> Len(AncillaryKept(rstream0, rabuf0))]

\* read_ancillary_to_end has read two chunks, both with control data, to
\* end-of-stream through a fixed ancillary buffer with room for one byte:
\* the control data was cut short and the payload delivered whole.
C20_Witness ==
    /\ rop = "read_ancillary_to_end"
    /\ ~rabuf0.growable /\ rabuf0.cap = 1
    /\ rpc = "done" /\ rres = "Ok"
    /\ Len(rstream0) = 2
    /\ \A i \in DOMAIN rstream0 : rstream0[i].anc # <<>>
    /\ rabuf.data = <<7>>
    /\ rret.ancillary = 1
    /\ rbuf = rbuf0 \o StreamBytes(rstream0)
    /\ \A i \in DOMAIN rlog : rlog[i].reserved

\* C22: when read_ancillary_to_end or read_to_end_with_ancillary succeeds, the
\* `main` of the value returned is the number of bytes by which the main
\* buffer grew during the call; when read_exact_with_ancillary succeeds it is
\* the length of the slice supplied; and while any of them is reading, the
\* accumulator's `main` is the number of bytes put into the buffer so far.
C22_MainIsGrowth ==
    /\ (rpc = "done" /\ rres = "Ok" /\ rop \in ToEndOps)
          => rret.main = Len(rbuf) - Len(rbuf0)
    /\ (rpc = "done" /\ rres = "Ok" /\ rop = "read_exact_with_ancillary")
          => rret.main = rlen
    /\ rpc = "loop" => rret.main = Len(rbuf) - Len(rbuf0)

\* read_to_end_with_ancillary has appended three bytes in two reads to a Vec
\* that held one, an interrupted read retried on the way, control data
\* arriving with the payload.
C22_Witness ==
    /\ rop = "read_to_end_with_ancillary"
    /\ rpc = "done" /\ rres = "Ok"
    /\ rbuf0 = <<9>>
    /\ Len(rbuf) = 4
    /\ rret.main = 3
    /\ rret.ancillary > 0
    /\ rerrs = 1
    /\ Len(rlog) = 3

(***************************************************************************)
(* The default vectored calls, read_ancillary_vectored and                 *)
(* write_ancillary_vectored, and the single-buffer calls made in terms of  *)
(* them, read_in_terms_of_vectored and write_in_terms_of_vectored.         *)
(*                                                                         *)
(* A segment is the contents of one IoSlice / IoSliceMut.  A call of the   *)
(* single-buffer primitive is logged as [seg, buf, abuf]: the index of the *)
(* segment whose slice was passed (0 for the empty slice `&[][..]`), the   *)
(* contents of that slice and the ancillary buffer passed.                 *)
(***************************************************************************)
VecReadOps == {"read_ancillary_vectored", "read_in_terms_of_vectored"}
VecWriteOps == {"write_ancillary_vectored", "write_in_terms_of_vectored"}
VecDefaultOps == {"read_ancillary_vectored", "write_ancillary_vectored"}
VecWrapOps == {"read_in_terms_of_vectored", "write_in_terms_of_vectored"}

Segments == {<<>>, <<5>>, <<6, 5>>}

\* bufs.iter().find(|b| !b.is_empty()): the index of the first non-empty
\* segment, 0 for None.
find_nonempty_first(bufs) == IF bufs = <<>> THEN 0 ELSE 1

find_nonempty(bufs) ==
    LET S == {i \in DOMAIN bufs : bufs[i] # <<>>}
    IN  IF S = {} THEN 0 ELSE CHOOSE i \in S : \A j \in S : i <= j

\* .map_or(&[][..], |b| &**b): the slice found, else the empty slice.
map_or_empty(bufs, i) == IF i = 0 THEN <<>> ELSE bufs[i]

\* WriteAncillary::write_ancillary(buf, abuf) on a stream that has room for
\* `room` more bytes: as many bytes of buf as there is room for, and abuf
\* whole.
write_ancillary(room, buf, abuf) ==
    LET k == Min(Len(buf), room)
    IN  [n |-> k, bytes |-> Prefix(buf, k), anc |-> abuf, room |-> room - k]

\* ReadAncillary::read_ancillary_vectored(bufs, abuf), the provided body.
\* The underlying read_ancillary fails with `err` unless err = "none".
read_ancillary_vectored_noanc(stream, bufs, abuf, err) ==
    LET i == find_nonempty(bufs)
        buf == map_or_empty(bufs, i)
        none == [abuf EXCEPT !.cap = Len(abuf.data)]
        r == read_ancillary(stream, Len(buf), none)
        call == [seg |-> i, buf |-> buf, abuf |-> none]
    IN  IF err # "none"
        THEN [ok |-> FALSE, kind |-> err, sc |-> ReadAncillarySuccess_default,
              bufs |-> bufs, abuf |-> abuf, stream |-> stream, calls |-> <<call>>]
        ELSE [ok |-> TRUE, kind |-> "none", sc |-> r.sc,
              bufs |-> IF i = 0 THEN bufs
                       ELSE [bufs EXCEPT ![i] = r.bytes \o Suffix(@, Len(r.bytes))],
              abuf |-> [r.abuf EXCEPT !.cap = abuf.cap], stream |-> r.stream,
              calls |-> <<call>>]

read_ancillary_vectored(stream, bufs, abuf, err) ==
    LET i == find_nonempty(bufs)
        buf == map_or_empty(bufs, i)
        \* self.read_ancillary(buf, abuf)
        r == read_ancillary(stream, Len(buf), abuf)
        call == [seg |-> i, buf |-> buf, abuf |-> abuf]
    IN  IF err # "none"
        THEN [ok |-> FALSE, kind |-> err, sc |-> ReadAncillarySuccess_default,
              bufs |-> bufs, abuf |-> abuf, stream |-> stream, calls |-> <<call>>]
        ELSE [ok |-> TRUE, kind |-> "none", sc |-> r.sc,
              bufs |-> IF i = 0 THEN bufs
                       ELSE [bufs EXCEPT ![i] = r.bytes \o Suffix(@, Len(r.bytes))],
              abuf |-> r.abuf, stream |-> r.stream, calls |-> <<call>>]

\* WriteAncillary::write_ancillary_vectored(bufs, abuf), the provided body.
write_ancillary_vectored(room, bufs, abuf, err) ==
    LET i == find_nonempty(bufs)
        buf == map_or_empty(bufs, i)
        \* self.write_ancillary(buf, abuf)
        r == write_ancillary(room, buf, abuf)
        call == [seg |-> i, buf |-> buf, abuf |-> abuf]
    IN  IF err # "none"
        THEN [ok |-> FALSE, kind |-> err, n |-> 0, sent |-> <<>>, anc |-> <<>>,
              room |-> room, calls |-> <<call>>]
        ELSE [ok |-> TRUE, kind |-> "none", n |-> r.n, sent |-> r.bytes,
              anc |-> r.anc, room |-> r.room, calls |-> <<call>>]

\* read_in_terms_of_vectored(slf, buf, abuf):
\* slf.read_ancillary_vectored(&mut [IoSliceMut::new(buf)], abuf); `buf` in
\* the result is the caller's buffer afterwards.
read_in_terms_of_vectored(stream, buf, abuf, err) ==
    LET r == read_ancillary_vectored(stream, <<buf>>, abuf, err)
    IN  [ok |-> r.ok, kind |-> r.kind, sc |-> r.sc, buf |-> r.bufs[1],
         abuf |-> r.abuf, stream |-> r.stream, calls |-> r.calls]

\* write_in_terms_of_vectored(slf, buf, abuf):
\* slf.write_ancillary_vectored(&[IoSlice::new(buf)], abuf)
write_in_terms_of_vectored(room, buf, abuf, err) ==
    write_ancillary_vectored(room, <<buf>>, abuf, err)

\* The value a read returns, as an io::Result<ReadAncillarySuccess>.
ReadResult(r) == [ok |-> r.ok, kind |-> r.kind, sc |-> r.sc]

\* The value a write returns, as an io::Result<usize>.
WriteResult(r) == [ok |-> r.ok, kind |-> r.kind, n |-> r.n]

CallReadVectored ==
    /\ vpc = "call"
    /\ vop = "read_ancillary_vectored"
    /\ LET r == read_ancillary_vectored(vstream0, vbufs0, vabuf0, verr)
       IN  /\ vbufs' = r.bufs
           /\ vabuf' = r.abuf
           /\ vstream' = r.stream
           /\ vcalls' = vcalls \o r.calls
           /\ vres' = ReadResult(r)
    /\ vpc' = "done"
    /\ UNCHANGED <<vop, vbufs0, vabuf0, vstream0, verr>>
    /\ UNCHANGED <<wvars, svars, pvars, nvars, rvars, evars, tvars, hvars, fvars>>

CallWriteVectored ==
    /\ vpc = "call"
    /\ vop = "write_ancillary_vectored"
    /\ LET r == write_ancillary_vectored(vstream0, vbufs0, vabuf0, verr)
       IN  /\ vstream' = r.room
           /\ vcalls' = vcalls \o r.calls
           /\ vres' = WriteResult(r)
    /\ vpc' = "done"
    /\ UNCHANGED <<vop, vbufs0, vabuf0, vstream0, verr, vbufs, vabuf>>
    /\ UNCHANGED <<wvars, svars, pvars, nvars, rvars, evars, tvars, hvars, fvars>>

CallReadInTermsOfVectored ==
    /\ vpc = "call"
    /\ vop = "read_in_terms_of_vectored"
    /\ LET r == read_in_terms_of_vectored(vstream0, vbufs0[1], vabuf0, verr)
       IN  /\ vbufs' = <<r.buf>>
           /\ vabuf' = r.abuf
           /\ vstream' = r.stream
           /\ vcalls' = vcalls \o r.calls
           /\ vres' = ReadResult(r)
    /\ vpc' = "done"
    /\ UNCHANGED <<vop, vbufs0, vabuf0, vstream0, verr>>
    /\ UNCHANGED <<wvars, svars, pvars, nvars, rvars, evars, tvars, hvars, fvars>>

CallWriteInTermsOfVectored ==
    /\ vpc = "call"
    /\ vop = "write_in_terms_of_vectored"
    /\ LET r == write_in_terms_of_vectored(vstream0, vbufs0[1], vabuf0, verr)
       IN  /\ vstream' = r.room
           /\ vcalls' = vcalls \o r.calls
           /\ vres' = WriteResult(r)
    /\ vpc' = "done"
    /\ UNCHANGED <<vop, vbufs0, vabuf0, vstream0, verr, vbufs, vabuf>>
    /\ UNCHANGED <<wvars, svars, pvars, nvars, rvars, evars, tvars, hvars, fvars>>

InitVec ==
    /\ FmtIdle
    /\ HalvesIdle
    /\ TwinIdle
    /\ EndToEndIdle
    /\ WriteIdle
    /\ SplitIdle
    /\ PollIdle
    /\ NameIdle
    /\ ReadIdle
    /\ vop \in VecReadOps \cup VecWriteOps
    /\ vbufs0 \in IF vop \in VecDefaultOps THEN SeqsUpTo(Segments, MaxSegs)
                  ELSE {<<b>> : b \in Segments}
    /\ vabuf0 \in IF vop \in VecReadOps
                  THEN [data : {<<>>}, cap : 0..AbufLimit, growable : {FALSE}]
                  ELSE SeqsUpTo({7}, MaxAnc)
    /\ vstream0 \in IF vop \in VecReadOps THEN SeqsUpTo(Chunks, MaxChunks)
                    ELSE 0..MaxRoom
    /\ verr \in {"none", "ConnectionReset"}
    /\ vbufs = vbufs0
    /\ vabuf = vabuf0
    /\ vstream = vstream0
    /\ vcalls = <<>>
    /\ vres = "none"
    /\ vpc = "call"

NextVec ==
    \/ CallReadVectored
    \/ CallWriteVectored
    \/ CallReadInTermsOfVectored
    \/ CallWriteInTermsOfVectored

SpecVec == InitVec /\ [][NextVec]_vars

(***************************************************************************)
(* Properties of the vectored calls.                                       *)
(***************************************************************************)

\* The segments of a list that come before every non-empty one are the empty
\* ones at its front: i is the first non-empty segment of bufs.
IsFirstNonEmpty(bufs, i) ==
    /\ i \in DOMAIN bufs
    /\ bufs[i] # <<>>
    /\ \A j \in 1..(i - 1) : bufs[j] = <<>>

\* C12: a default vectored read or write makes exactly one call of the
\* single-buffer primitive; the call gets the first non-empty segment of the
\* list, or the empty slice when the list has none, together with the
\* ancillary buffer as given; every other segment is as it was, and the
\* segment passed keeps its length.
C12_FirstNonEmptySegment ==
    (vpc = "done" /\ vop \in VecDefaultOps) =>
        /\ Len(vcalls) = 1
        /\ vcalls[1].abuf = vabuf0
        /\ \/ /\ IsFirstNonEmpty(vbufs0, vcalls[1].seg)
              /\ vcalls[1].buf = vbufs0[vcalls[1].seg]
           \/ /\ \A j \in DOMAIN vbufs0 : vbufs0[j] = <<>>
              /\ vcalls[1].seg = 0
              /\ vcalls[1].buf = <<>>
        /\ Len(vbufs) = Len(vbufs0)
        /\ \A j \in DOMAIN vbufs0 :
              /\ j # vcalls[1].seg => vbufs[j] = vbufs0[j]
              /\ Len(vbufs[j]) = Len(vbufs0[j])

\* A vectored read whose list starts with an empty segment filled the second
\* segment and left the third alone.
C12_Witness ==
    /\ vpc = "done"
    /\ vop = "read_ancillary_vectored"
    /\ vbufs0 = <<<<>>, <<6, 5>>, <<5>>>>
    /\ vres.ok /\ vres.sc.main = 2
    /\ vbufs = <<<<>>, <<2, 1>>, <<5>>>>

\* C13: a single-buffer call made in terms of the vectored call, which falls
\* back to the first non-empty segment, does what the single-buffer primitive
\* does when called directly on the same stream with the same buffers: the
\* same value returned, the same bytes read into the buffer or accepted by
\* the stream, the same ancillary buffer and stream afterwards, in exactly
\* one call of the primitive, which gets a slice of the same contents and
\* the same ancillary buffer.
C13_InTermsOfVectoredRoundTrip ==
    /\ (vpc = "done" /\ vop = "read_in_terms_of_vectored") =>
          LET buf == vbufs0[1]
              d == read_ancillary(vstream0, Len(buf), vabuf0)
          IN  /\ Len(vcalls) = 1
              /\ vcalls[1].buf = buf
              /\ vcalls[1].abuf = vabuf0
              /\ IF verr = "none"
                 THEN /\ vres = [ok |-> TRUE, kind |-> "none", sc |-> d.sc]
                      /\ vbufs = <<d.bytes \o Suffix(buf, Len(d.bytes))>>
                      /\ vabuf = d.abuf
                      /\ vstream = d.stream
                 ELSE /\ vres = [ok |-> FALSE, kind |-> verr,
                                 sc |-> ReadAncillarySuccess_default]
                      /\ vbufs = vbufs0
                      /\ vabuf = vabuf0
                      /\ vstream = vstream0
    /\ (vpc = "done" /\ vop = "write_in_terms_of_vectored") =>
          LET buf == vbufs0[1]
              d == write_ancillary(vstream0, buf, vabuf0)
          IN  /\ Len(vcalls) = 1
              /\ vcalls[1].buf = buf
              /\ vcalls[1].abuf = vabuf0
              /\ IF verr = "none"
                 THEN /\ vres = [ok |-> TRUE, kind |-> "none", n |-> d.n]
                      /\ vstream = d.room
                 ELSE /\ vres = [ok |-> FALSE, kind |-> verr, n |-> 0]
                      /\ vstream = vstream0
              /\ vbufs = vbufs0
              /\ vabuf = vabuf0

\* A wrapped single-buffer read took two bytes and two bytes of control data.
C13_Witness ==
    /\ vpc = "done"
    /\ vop = "read_in_terms_of_vectored"
    /\ vbufs0 = <<<<6, 5>>>>
    /\ vres.ok /\ vres.sc.main = 2 /\ vres.sc.ancillary = 2
    /\ vbufs = <<<<2, 1>>>>
    /\ vabuf.data = <<7, 8>>

(***************************************************************************)
(* End to end: a client writes a payload with no ancillary data and shuts  *)
(* down its write direction; the server reads with read_ancillary_to_end.  *)
(*                                                                         *)
(* The connection carries at most SockBuf bytes in flight.  A blocking     *)
(* write waits for room and takes at least one byte; a blocking read waits *)
(* for data or for the end of the stream.  What one write put in may reach *)
(* the reader in a read of its own or joined to the bytes before it.       *)
(***************************************************************************)

\* b"Hello from client!\n"
HelloFromClient ==
    <<72, 101, 108, 108, 111, 32, 102, 114, 111, 109, 32,
      99, 108, 105, 101, 110, 116, 33, 10>>

Payloads == {HelloFromClient} \cup SeqsUpTo(Bytes, MaxBuf)

InFlight(chan) == Len(Concat([i \in DOMAIN chan |-> chan[i].main]))

\* The connection after `bytes` were written with no ancillary data.
ChanAfterSend(chan, bytes) ==
    {Append(chan, [main |-> bytes, anc |-> <<>>])}
        \cup (IF chan = <<>> THEN {}
              ELSE {[chan EXCEPT ![Len(chan)].main = @ \o bytes]})

\* write_all_ancillary(payload, empty): the partial application is built and
\* write_all entered.
client_write_all ==
    /\ ecpc = "call"
    /\ erem' = epayload
    /\ ecpc' = "loop"
    /\ UNCHANGED <<epayload, echan, eshut, esbuf0, esbuf, esabuf, esret, espc,
                   esres>>
    /\ UNCHANGED <<wvars, svars, pvars, nvars, rvars, vvars, tvars, hvars, fvars>>

\* One iteration of write_all: the adapter's write, which with no ancillary
\* data is the stream's write; the connection takes k bytes.
client_write_iter ==
    /\ ecpc = "loop"
    /\ erem # <<>>
    /\ \E k \in 1..Min(Len(erem), SockBuf - InFlight(echan)) :
          LET o == [ok |-> TRUE, n |-> k, kind |-> "none"]
              w == WriteAncillaryPartAppl_write(erem, <<>>, o)
              a == write_all_advance(erem, w.ret)
          IN  /\ erem' = a.rem
              /\ ecpc' = a.pc
              /\ echan' \in ChanAfterSend(echan, w.call.bytes)
    /\ UNCHANGED <<epayload, eshut, esbuf0, esbuf, esabuf, esret, espc, esres>>
    /\ UNCHANGED <<wvars, svars, pvars, nvars, rvars, vvars, tvars, hvars, fvars>>

\* write_all returns Ok(()).
client_write_return ==
    /\ ecpc = "loop"
    /\ erem = <<>>
    /\ ecpc' = "shutdown"
    /\ UNCHANGED <<epayload, erem, echan, eshut, esbuf0, esbuf, esabuf, esret,
                   espc, esres>>
    /\ UNCHANGED <<wvars, svars, pvars, nvars, rvars, vvars, tvars, hvars, fvars>>

\* writer.shutdown(): the write direction is half-closed.
client_shutdown ==
    /\ ecpc = "shutdown"
    /\ eshut' = TRUE
    /\ ecpc' = "done"
    /\ UNCHANGED <<epayload, erem, echan, esbuf0, esbuf, esabuf, esret, espc,
                   esres>>
    /\ UNCHANGED <<wvars, svars, pvars, nvars, rvars, vvars, tvars, hvars, fvars>>

\* read_ancillary_to_end(buf, abuf): the partial application is built with
\* ret: Default::default() and reserve: true.
server_read_ancillary_to_end ==
    /\ espc = "call"
    /\ espc' = "loop"
    /\ esret' = ReadAncillarySuccess_default
    /\ UNCHANGED <<epayload, erem, ecpc, echan, eshut, esbuf0, esbuf, esabuf,
                   esres>>
    /\ UNCHANGED <<wvars, svars, pvars, nvars, rvars, vvars, tvars, hvars, fvars>>

\* One iteration of read_to_end over the adapter.  The read returns when
\* there are bytes in flight or the peer has shut down.
server_read_iter ==
    /\ espc = "loop"
    /\ echan # <<>> \/ eshut
    /\ \E n \in 1..MaxReq :
          /\ LET r == ReadAncillaryPartAppl_read(echan, n, esabuf, esret, TRUE, "none")
             IN  /\ echan' = r.stream
                 /\ esabuf' = r.abuf
                 /\ esret' = r.ret
                 /\ IF r.ok
                    THEN /\ esbuf' = esbuf \o Filled(r.bytes, r.n)
                         /\ espc' = IF r.n = 0 THEN "done" ELSE "loop"
                         /\ esres' = IF r.n = 0 THEN "Ok" ELSE "none"
                    ELSE /\ esbuf' = esbuf
                         /\ espc' = IF r.kind = "Interrupted" THEN "loop" ELSE "done"
                         /\ esres' = IF r.kind = "Interrupted" THEN "none" ELSE r.kind
    /\ UNCHANGED <<epayload, erem, ecpc, eshut, esbuf0>>
    /\ UNCHANGED <<wvars, svars, pvars, nvars, rvars, vvars, tvars, hvars, fvars>>

InitEndToEnd ==
    /\ FmtIdle
    /\ HalvesIdle
    /\ TwinIdle
    /\ WriteIdle
    /\ SplitIdle
    /\ PollIdle
    /\ NameIdle
    /\ ReadIdle
    /\ VecIdle
    /\ epayload \in Payloads
    /\ erem = <<>>
    /\ ecpc = "call"
    /\ echan = <<>>
    /\ eshut = FALSE
    /\ esbuf0 \in {<<>>, <<9>>}
    /\ esbuf = esbuf0
    /\ esabuf \in [data : {<<>>}, cap : {0, AbufLimit}, growable : BOOLEAN]
    /\ esret = ReadAncillarySuccess_default
    /\ espc = "call"
    /\ esres = "none"

ClientNext ==
    \/ client_write_all
    \/ client_write_iter
    \/ client_write_return
    \/ client_shutdown

ServerNext ==
    \/ server_read_ancillary_to_end
    \/ server_read_iter

NextEndToEnd ==
    \/ ClientNext
    \/ ServerNext

\* The client and the server are threads of their own: each one that can
\* take a step eventually does.
SpecEndToEnd ==
    InitEndToEnd /\ [][NextEndToEnd]_vars
        /\ WF_vars(ClientNext) /\ WF_vars(ServerNext)

(***************************************************************************)
(* Properties of the end-to-end run.                                       *)
(***************************************************************************)

\* C15: when the peer writes a payload with no ancillary data and then shuts
\* down its write direction, read_ancillary_to_end returns; when it has, it
\* succeeded, the peer had shut down and nothing is left in flight (the end
\* of the stream was seen), the main buffer has grown by exactly the payload,
\* in order, and the counts returned are the payload's length (19 for
\* b"Hello from client!\n") and 0 ancillary bytes.
C15_EndToEnd ==
    /\ <>(espc = "done")
    /\ [](espc = "done" =>
            /\ esres = "Ok"
            /\ eshut /\ echan = <<>>
            /\ esbuf = esbuf0 \o epayload
            /\ esret = [main |-> Len(epayload), ancillary |-> 0]
            /\ epayload = HelloFromClient =>
                  (esret.main = 19 /\ Len(esbuf) = Len(esbuf0) + 19))

\* The server has read b"Hello from client!\n" to the end of the stream.
C15_Witness ==
    /\ espc = "done" /\ esres = "Ok"
    /\ epayload = HelloFromClient
    /\ esbuf = <<9>> \o HelloFromClient
    /\ esret.main = 19
    /\ eshut

(***************************************************************************)
(* What a failed write_all_ancillary tells its caller.  The call is made   *)
(* twice with the same arguments, on streams that may behave differently:  *)
(* what the caller has in hand after each is the io::Result<()> alone,     *)
(* `buf` being borrowed immutably and `abuf` passed by value.              *)
(***************************************************************************)

\* The second call: the partial application is built and write_all entered.
twin_write_all_ancillary ==
    /\ wpc = "done"
    /\ tpc = "call"
    /\ trem' = wbuf
    /\ tpart' = wabuf
    /\ tpc' = "loop"
    /\ UNCHANGED <<tcalls, tres>>
    /\ UNCHANGED <<wvars, svars, pvars, nvars, rvars, vvars, evars, hvars, fvars>>

\* One iteration of write_all in the second call.
twin_write_all_iter ==
    /\ tpc = "loop"
    /\ trem # <<>>
    /\ \E o \in WriteOutcomes(Len(trem)) :
          /\ o.ok \/ Cardinality({i \in DOMAIN tcalls : ~tcalls[i].ok}) < MaxErrs
          /\ LET w == WriteAncillaryPartAppl_write(trem, tpart, o)
                 a == write_all_advance(trem, w.ret)
             IN  /\ tcalls' = Append(tcalls, w.call)
                 /\ tpart' = w.abuf
                 /\ trem' = a.rem
                 /\ tpc' = a.pc
                 /\ tres' = a.res
    /\ UNCHANGED <<wvars, svars, pvars, nvars, rvars, vvars, evars, hvars, fvars>>

\* write_all returns Ok(()) in the second call.
twin_write_all_return ==
    /\ tpc = "loop"
    /\ trem = <<>>
    /\ tpc' = "done"
    /\ tres' = "Ok"
    /\ UNCHANGED <<trem, tpart, tcalls>>
    /\ UNCHANGED <<wvars, svars, pvars, nvars, rvars, vvars, evars, hvars, fvars>>

InitWritePair ==
    /\ FmtIdle
    /\ HalvesIdle
    /\ SplitIdle
    /\ ReadIdle
    /\ NameIdle
    /\ PollIdle
    /\ VecIdle
    /\ EndToEndIdle
    /\ wbuf \in SeqsUpTo(Bytes, MaxBuf)
    /\ wabuf \in SeqsUpTo({7}, MaxAnc)
    /\ wrem = <<>>
    /\ wpart = <<>>
    /\ wcalls = <<>>
    /\ wpc = "call"
    /\ wres = "none"
    /\ trem = <<>>
    /\ tpart = <<>>
    /\ tcalls = <<>>
    /\ tpc = "call"
    /\ tres = "none"

NextWritePair ==
    \/ write_all_ancillary
    \/ write_all_iter
    \/ write_all_return
    \/ twin_write_all_ancillary
    \/ twin_write_all_iter
    \/ twin_write_all_return

SpecWritePair == InitWritePair /\ [][NextWritePair]_vars

(***************************************************************************)
(* Properties of the failed write.                                         *)
(***************************************************************************)

\* What the stream took during a call: nothing, or some bytes or the
\* ancillary payload.
SentSomething(calls) == \E i \in DOMAIN calls : calls[i].ok

\* C16: when write_all_ancillary fails, what it reports tells the caller
\* whether nothing was sent yet or some bytes were sent and the ancillary
\* payload delivered: two failed calls with the same arguments that report
\* the same outcome agree on whether the ancillary payload was delivered.
C16_FailureTellsWhatWasSent ==
    (/\ wpc = "done" /\ tpc = "done"
     /\ wabuf # <<>>
     /\ wres # "Ok" /\ tres # "Ok"
     /\ wres = tres)
        => (SentSomething(wcalls) <=> SentSomething(tcalls))

(***************************************************************************)
(* The two halves of a split connection at work: a read on the read half   *)
(* and a write on the write half, each in a task of its own, over the one  *)
(* descriptor.  Each half runs the retry loop of its direction; the        *)
(* runtime keeps readiness and a waker per direction.                      *)
(***************************************************************************)

\* The retry loop's match and readiness poll, for the half of direction d.
HalfStart(d) ==
    /\ hpc[d] = "idle"
    /\ hops < MaxOps
    /\ hops' = hops + 1
    /\ hpc' = [hpc EXCEPT ![d] = "attempt"]
    /\ hres' = [hres EXCEPT ![d] = NoResult]
    /\ UNCHANGED <<hkready, hevent, hreadiness, hwaker, hwoken>>
    /\ UNCHANGED <<wvars, svars, pvars, nvars, rvars, vvars, evars, tvars, fvars>>

HalfAttempt(d) ==
    /\ hpc[d] = "attempt"
    /\ \E o \in SyscallOutcomes(hkready[d]) :
          LET m == poll_ancillary_match(o)
          IN  /\ hpc' = [hpc EXCEPT ![d] = m.pc]
              /\ hres' = [hres EXCEPT ![d] = m.res]
              /\ IF o.kind = "Ok"
                 THEN \E still \in BOOLEAN : hkready' = [hkready EXCEPT ![d] = still]
                 ELSE hkready' = hkready
    /\ UNCHANGED <<hevent, hreadiness, hwaker, hwoken, hops>>
    /\ UNCHANGED <<wvars, svars, pvars, nvars, rvars, vvars, evars, tvars, fvars>>

HalfReady_shared_waker(d) ==
    /\ hpc[d] = "ready"
    /\ \E r \in PollReadyOutcomes(hreadiness[d]) :
          \/ /\ r = "ReadyOk"
             /\ hpc' = [hpc EXCEPT ![d] = "attempt"]
             /\ UNCHANGED <<hres, hwaker>>
          \/ /\ r = "Pending"
             /\ hpc' = [hpc EXCEPT ![d] = "pending"]
             /\ hwaker' = {d}
             /\ UNCHANGED hres
          \/ /\ r = "ReadyErr"
             /\ hpc' = [hpc EXCEPT ![d] = "done"]
             /\ hres' = [hres EXCEPT ![d] = [kind |-> "Other", n |-> 0]]
             /\ UNCHANGED hwaker
    /\ UNCHANGED <<hkready, hevent, hreadiness, hwoken, hops>>
    /\ UNCHANGED <<wvars, svars, pvars, nvars, rvars, vvars, evars, tvars, fvars>>

HalfReady(d) ==
    /\ hpc[d] = "ready"
    /\ \E r \in PollReadyOutcomes(hreadiness[d]) :
          \/ /\ r = "ReadyOk"
             /\ hpc' = [hpc EXCEPT ![d] = "attempt"]
             /\ UNCHANGED <<hres, hwaker>>
          \/ /\ r = "Pending"
             /\ hpc' = [hpc EXCEPT ![d] = "pending"]
             /\ hwaker' = hwaker \cup {d}
             /\ UNCHANGED hres
          \/ /\ r = "ReadyErr"
             /\ hpc' = [hpc EXCEPT ![d] = "done"]
             /\ hres' = [hres EXCEPT ![d] = [kind |-> "Other", n |-> 0]]
             /\ UNCHANGED hwaker
    /\ UNCHANGED <<hkready, hevent, hreadiness, hwoken, hops>>
    /\ UNCHANGED <<wvars, svars, pvars, nvars, rvars, vvars, evars, tvars, fvars>>

HalfRepoll(d) ==
    /\ hpc[d] = "pending"
    /\ d \in hwoken
    /\ hwoken' = hwoken \ {d}
    /\ hpc' = [hpc EXCEPT ![d] = "attempt"]
    /\ UNCHANGED <<hres, hkready, hevent, hreadiness, hwaker, hops>>
    /\ UNCHANGED <<wvars, svars, pvars, nvars, rvars, vvars, evars, tvars, fvars>>

HalfFinish(d) ==
    /\ hpc[d] = "done"
    /\ hpc' = [hpc EXCEPT ![d] = "idle"]
    /\ UNCHANGED <<hres, hkready, hevent, hreadiness, hwaker, hwoken, hops>>
    /\ UNCHANGED <<wvars, svars, pvars, nvars, rvars, vvars, evars, tvars, fvars>>

\* Environment: direction d of the descriptor becomes ready.
HalfKernelReady(d) ==
    /\ ~hkready[d]
    /\ hkready' = [hkready EXCEPT ![d] = TRUE]
    /\ hevent' = [hevent EXCEPT ![d] = TRUE]
    /\ UNCHANGED <<hpc, hres, hreadiness, hwaker, hwoken, hops>>
    /\ UNCHANGED <<wvars, svars, pvars, nvars, rvars, vvars, evars, tvars, fvars>>

\* Environment: the reactor delivers the event of direction d and wakes the
\* waker registered for that direction.
HalfReactorDeliver(d) ==
    /\ hevent[d]
    /\ hevent' = [hevent EXCEPT ![d] = FALSE]
    /\ hreadiness' = [hreadiness EXCEPT ![d] = TRUE]
    /\ hwoken' = IF d \in hwaker THEN hwoken \cup {d} ELSE hwoken
    /\ hwaker' = hwaker \ {d}
    /\ UNCHANGED <<hpc, hres, hkready, hops>>
    /\ UNCHANGED <<wvars, svars, pvars, nvars, rvars, vvars, evars, tvars, fvars>>

InitHalves ==
    /\ FmtIdle
    /\ WriteIdle
    /\ SplitIdle
    /\ PollIdle
    /\ NameIdle
    /\ ReadIdle
    /\ VecIdle
    /\ EndToEndIdle
    /\ TwinIdle
    /\ hpc = [d \in Dirs |-> "idle"]
    /\ hres = [d \in Dirs |-> NoResult]
    /\ hkready \in [Dirs -> BOOLEAN]
    /\ hevent = hkready
    /\ hreadiness = [d \in Dirs |-> FALSE]
    /\ hwaker = {}
    /\ hwoken = {}
    /\ hops = 0

\* The steps a half's task takes on its own once its poll function is
\* entered or its task woken.
HalfStep(d) ==
    \/ HalfAttempt(d)
    \/ HalfReady(d)
    \/ HalfRepoll(d)

NextHalves ==
    \/ \E d \in Dirs : HalfStart(d)
    \/ \E d \in Dirs : HalfStep(d)
    \/ \E d \in Dirs : HalfFinish(d)
    \/ \E d \in Dirs : HalfKernelReady(d)
    \/ \E d \in Dirs : HalfReactorDeliver(d)

\* Each half's task is scheduled fairly and the reactor delivers the events
\* it has; nothing obliges either direction to become ready.
SpecHalves ==
    InitHalves /\ [][NextHalves]_vars
        /\ \A d \in Dirs : WF_vars(HalfStep(d)) /\ WF_vars(HalfReactorDeliver(d))

(***************************************************************************)
(* Properties of the two halves at work.                                   *)
(***************************************************************************)

\* C18: an operation on one half whose direction is ready completes, whatever
\* the operation on the other half does, also when that one stays suspended
\* for ever because its direction never becomes ready; and an operation's
\* result is never set by the other half's steps.
C18_HalvesIndependent ==
    /\ \A d \in Dirs :
          (hpc[d] \in {"attempt", "ready", "pending"} /\ hkready[d])
              ~> (hpc[d] = "done")
    /\ [][\A d \in Dirs :
             (hpc'[d] # hpc[d] \/ hres'[d] # hres[d]) =>
                 \A e \in Dirs \ {d} : hpc'[e] = hpc[e] /\ hres'[e] = hres[e]]_vars

\* A write on the write half has completed while the read on the read half
\* is suspended on a direction that is not ready.
C18_Witness ==
    /\ hpc["read"] = "pending"
    /\ ~hkready["read"]
    /\ "read" \in hwaker
    /\ hpc["write"] = "done"
    /\ hres["write"].kind = "Ok"

(***************************************************************************)
(* write_fmt_ancillary: Write::write_fmt over the partial application.     *)
(* The formatter hands the strings of the arguments, one after the other,  *)
(* to write_str, which runs write_all on each; the first error ends the    *)
(* operation and is what write_fmt returns.                                *)
(***************************************************************************)
Pieces == {<<>>, <<1>>, <<2, 1>>}

\* write_fmt_ancillary(fmt, abuf): builds the partial application and enters
\* Write::write_fmt(fmt).
write_fmt_ancillary ==
    /\ fpc = "call"
    /\ fqueue' = fpieces
    /\ fpart' = fabuf
    /\ fpc' = "piece"
    /\ UNCHANGED <<fpieces, fabuf, frem, fcalls, fres>>
    /\ UNCHANGED <<wvars, svars, pvars, nvars, rvars, vvars, evars, tvars, hvars>>

\* The formatter calls write_str(s), which enters write_all(s.as_bytes()).
fmt_write_str ==
    /\ fpc = "piece"
    /\ fqueue # <<>>
    /\ frem' = Head(fqueue)
    /\ fqueue' = Tail(fqueue)
    /\ fpc' = "loop"
    /\ UNCHANGED <<fpieces, fabuf, fpart, fcalls, fres>>
    /\ UNCHANGED <<wvars, svars, pvars, nvars, rvars, vvars, evars, tvars, hvars>>

\* One iteration of write_all on the current string.
fmt_write_all_iter ==
    /\ fpc = "loop"
    /\ frem # <<>>
    /\ \E o \in WriteOutcomes(Len(frem)) :
          /\ o.ok \/ Cardinality({i \in DOMAIN fcalls : ~fcalls[i].ok}) < MaxErrs
          /\ LET w == WriteAncillaryPartAppl_write(frem, fpart, o)
                 a == write_all_advance(frem, w.ret)
             IN  /\ fcalls' = Append(fcalls, w.call)
                 /\ fpart' = w.abuf
                 /\ frem' = a.rem
                 /\ fpc' = a.pc
                 /\ fres' = a.res
    /\ UNCHANGED <<fpieces, fabuf, fqueue>>
    /\ UNCHANGED <<wvars, svars, pvars, nvars, rvars, vvars, evars, tvars, hvars>>

\* write_all has written the string: write_str returns Ok(()).
fmt_write_all_return ==
    /\ fpc = "loop"
    /\ frem = <<>>
    /\ fpc' = "piece"
    /\ UNCHANGED <<fpieces, fabuf, fqueue, frem, fpart, fcalls, fres>>
    /\ UNCHANGED <<wvars, svars, pvars, nvars, rvars, vvars, evars, tvars, hvars>>

\* The formatter has no string left: write_fmt returns Ok(()).
write_fmt_return ==
    /\ fpc = "piece"
    /\ fqueue = <<>>
    /\ fpc' = "done"
    /\ fres' = "Ok"
    /\ UNCHANGED <<fpieces, fabuf, fqueue, frem, fpart, fcalls>>
    /\ UNCHANGED <<wvars, svars, pvars, nvars, rvars, vvars, evars, tvars, hvars>>

InitWriteFmt ==
    /\ WriteIdle
    /\ SplitIdle
    /\ PollIdle
    /\ NameIdle
    /\ ReadIdle
    /\ VecIdle
    /\ EndToEndIdle
    /\ TwinIdle
    /\ HalvesIdle
    /\ fpieces \in SeqsUpTo(Pieces, MaxPieces)
    /\ fabuf \in SeqsUpTo({7}, MaxAnc)
    /\ fqueue = <<>>
    /\ frem = <<>>
    /\ fpart = <<>>
    /\ fcalls = <<>>
    /\ fpc = "call"
    /\ fres = "none"

NextWriteFmt ==
    \/ write_fmt_ancillary
    \/ fmt_write_str
    \/ fmt_write_all_iter
    \/ fmt_write_all_return
    \/ write_fmt_return

\* Either derived write: one call of write_all_ancillary or one call of
\* write_fmt_ancillary.
InitWriteAny == InitWrite \/ InitWriteFmt

NextWriteAny == NextWrite \/ NextWriteFmt

SpecWriteAny == InitWriteAny /\ [][NextWriteAny]_vars

(***************************************************************************)
(* Properties of the ancillary payload inside the derived writes.          *)
(***************************************************************************)

\* Call i of the log was made after a write_ancillary call had succeeded.
SentBefore(calls, i) ==
    \E j \in 1..(i - 1) : calls[j].ok /\ calls[j].op = "write_ancillary"

\* The calls so far and the payload still pending, for the payload `abuf` the
\* caller passed: as long as no write_ancillary call has succeeded every call
\* is a write_ancillary carrying the whole payload, afterwards every call is
\* a plain write; the payload is pending until such a call has succeeded and
\* gone from then on.
PayloadDiscipline(calls, abuf, part) ==
    /\ \A i \in DOMAIN calls :
          IF abuf # <<>> /\ ~SentBefore(calls, i)
          THEN calls[i].op = "write_ancillary" /\ calls[i].anc = abuf
          ELSE calls[i].op = "write" /\ calls[i].anc = <<>>
    /\ part = IF SentBefore(calls, Len(calls) + 1) THEN <<>> ELSE abuf

\* C21: inside write_all_ancillary and write_fmt_ancillary the payload is
\* consumed by a successful write_ancillary call and by nothing else: a call
\* that carried it and failed, an Interrupted one that is retried included,
\* leaves it pending and the next call carries it again, whole; once a call
\* that carried it has succeeded, all later calls are plain writes.
C21_ConsumedOnlyOnSuccess ==
    /\ wpc \in {"loop", "done"} => PayloadDiscipline(wcalls, wabuf, wpart)
    /\ fpc \in {"piece", "loop", "done"} => PayloadDiscipline(fcalls, fabuf, fpart)

\* write_fmt_ancillary with two strings: the first call carried the payload
\* and was interrupted, the retry carried it again and succeeded, and the
\* last call was a plain write.
C21_Witness ==
    /\ fpc = "done" /\ fres = "Ok"
    /\ fabuf # <<>>
    /\ Len(fpieces) = 2
    /\ Len(fcalls) = 3
    /\ fcalls[1].op = "write_ancillary" /\ ~fcalls[1].ok /\ fcalls[1].anc = fabuf
    /\ fcalls[2].op = "write_ancillary" /\ fcalls[2].ok /\ fcalls[2].anc = fabuf
    /\ fcalls[3].op = "write" /\ fcalls[3].ok
    /\ fpart = <<>>

====
